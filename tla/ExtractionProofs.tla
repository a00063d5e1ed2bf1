-------------------------- MODULE ExtractionProofs --------------------------
(***************************************************************************)
(* Proofs about Extraction: for every tree of files and all limits, the    *)
(* server's disk holds no more files, no larger ones, and no more in all   *)
(* than the limits allow, what a run lists are whole files, with Docker    *)
(* all that the extraction takes, and what is refused is too much.         *)
(*                                                                         *)
(* The sum of the sizes is a fold. What it computes is proved below by     *)
(* induction over finite sets ("Totals"); with it, Reckoning says how the  *)
(* counters of the code relate to what is on disk and in the sandbox.      *)
(***************************************************************************)
EXTENDS Extraction, SequenceTheorems, FiniteSetTheorems, TLAPS

(* Docker's entries keep their path (extract.go:65-76): the name of the    *)
(* archive's own directory is put in front by the daemon and stripped.     *)
LEMMA DockerKeepsPaths ==
  ASSUME NEW p \in Paths, ~Climbs(p), backend = "docker"
  PROVE  Target(p) = p
<1> DEFINE h == <<"artifacts">> \o p
<1>1. p \in Seq(Names) /\ Len(p) \in Nat /\ Len(p) > 0
  BY DEF Paths
<1>2. /\ h \in Seq(Names \cup {"artifacts"})
      /\ Len(h) = Len(p) + 1
      /\ h[1] = "artifacts"
      /\ \A i \in 1 .. Len(p) : h[i + 1] = p[i]
  <2>1. <<"artifacts">> \in Seq(Names \cup {"artifacts"})
        /\ p \in Seq(Names \cup {"artifacts"})
    BY <1>1
  <2> QED BY <2>1, <1>1, ConcatProperties
<1>3. h # <<>> /\ Head(h) = "artifacts"
  BY <1>1, <1>2
<1>4. Tail(h) = p
  BY <1>1, <1>2, <1>3, HeadTailProperties, SeqEqual
<1>5. Header(p) = h
  BY DEF Header
<1> HIDE DEF h
<1> QED
  BY <1>1, <1>2, <1>3, <1>4, <1>5 DEF Target, Clean, Strip

(* New directories leave the files alone (extract.go:86, 106).             *)
LEMMA DirsKeepFiles ==
  ASSUME NEW ps
  PROVE  /\ Files(WithDirs(ps)) = Files(disk)
         /\ \A q \in Files(disk) : WithDirs(ps)[q] = disk[q]
         /\ (\A q \in DOMAIN disk : disk[q].kind \in {"dir", "file"})
              => \A q \in DOMAIN WithDirs(ps) :
                   WithDirs(ps)[q].kind \in {"dir", "file"}
BY DEF Files, WithDirs

(* Writing one file adds or replaces that file only (extract.go:109-119).  *)
LEMMA OneFileWritten ==
  ASSUME NEW p, NEW from, NEW size
  PROVE  LET d == WithFile(p, from, size) IN
         /\ Files(d) = Files(disk) \cup {p}
         /\ d[p] = [kind |-> "file", from |-> from, size |-> size]
         /\ \A q \in Files(disk) \ {p} : d[q] = disk[q]
         /\ (\A q \in DOMAIN disk : disk[q].kind \in {"dir", "file"})
              => \A q \in DOMAIN d : d[q].kind \in {"dir", "file"}
<1> DEFINE e == WithDirs(DirsTo(Parent(p)) \cup {p})
           d == [e EXCEPT ![p] =
                   [kind |-> "file", from |-> from, size |-> size]]
<1>1. /\ p \in DOMAIN e
      /\ DOMAIN d = DOMAIN e
      /\ d[p] = [kind |-> "file", from |-> from, size |-> size]
      /\ \A q \in DOMAIN e \ {p} : d[q] = e[q]
  BY DEF WithDirs
<1>2. /\ Files(e) = Files(disk)
      /\ \A q \in Files(disk) : q \in DOMAIN e /\ e[q] = disk[q]
      /\ (\A q \in DOMAIN disk : disk[q].kind \in {"dir", "file"})
           => \A q \in DOMAIN e : e[q].kind \in {"dir", "file"}
  BY DirsKeepFiles DEF Files
<1>3. WithFile(p, from, size) = d
  BY DEF WithFile
<1> HIDE DEF d, e
<1>4. Files(d) = Files(e) \cup {p}
  BY <1>1 DEF Files
<1> QED
  BY <1>1, <1>2, <1>3, <1>4

-----------------------------------------------------------------------------

(* The files of a tree have paths, and sizes that an int64 can hold.       *)
LEMMA TreeTyping ==
  ASSUME TypeOK
  PROVE  /\ PlainFiles \subseteq Paths /\ \A p \in PlainFiles : ~Climbs(p)
         /\ \A p \in PlainFiles : tree[p].size \in Nat
         /\ <<>> \notin PlainFiles
         /\ limits.maxFiles \in Int /\ limits.maxFileBytes \in Int
<1>1. IsTree(tree)
  BY TreesAssumption DEF TypeOK
<1>2. DOMAIN tree \subseteq Paths /\ \A p \in DOMAIN tree : tree[p] \in Nodes
  BY <1>1 DEF IsTree
<1>3. limits.maxFiles \in Int /\ limits.maxFileBytes \in Int
  BY LimitsAssumption DEF TypeOK
<1>4. \A p \in DOMAIN tree : tree[p].size \in Nat
  BY <1>2, LimitsAssumption DEF Nodes
<1> QED
  BY <1>2, <1>3, <1>4 DEF PlainFiles, Paths

(* What a step that reads a regular file knows (extract.go:90-104).        *)
LEMMA FileRead ==
  ASSUME TypeOK, TypeOK', NEW p \in unread, ReadFile(p)
  PROVE  /\ p \in PlainFiles
         /\ tree[p].size \in Nat
         /\ phase = "extracting"
         /\ extractedFiles \in Nat /\ extractedFiles' = extractedFiles + 1
         /\ UNCHANGED <<backend, tree, limits, artifacts>>
         /\ unread' = unread \ {p}
<1>1. p \in DOMAIN tree \cup {<<>>} /\ p # <<>>
  BY DEF TypeOK, ReadFile, Kind
<1>2. p \in PlainFiles
  BY <1>1 DEF ReadFile, Kind, Target, PlainFiles
<1> QED
  BY <1>2, TreeTyping DEF ReadFile, Read, given, TypeOK

(* Nothing is on disk at first.                                            *)
THEOREM Initialisation == Init => IInv
<1> SUFFICES ASSUME Init PROVE IInv
  OBVIOUS
<1>1. Files(disk) = {}
  BY DEF Init, Files
<1>2. TypeOK
  BY DEF Init, TypeOK
<1>3. FilesCounted
  <2>1. IsFiniteSet(Files(disk)) /\ Cardinality(Files(disk)) = 0
    BY <1>1, FS_EmptySet
  <2>2. extractedFiles = 0
    BY DEF Init
  <2> QED BY <2>1, <2>2 DEF FilesCounted
<1>4. FilesWithinLimit
  BY <1>1, <1>2, FS_EmptySet, TreeTyping DEF FilesWithinLimit, Exceeds
<1>5. PlainFiles \subseteq unread
  BY DEF Init, PlainFiles
<1> QED
  BY <1>1, <1>2, <1>3, <1>4, <1>5
  DEF Init, IInv, EachWithinLimit, WholeSoFar, NothingSkipped, ListedIsWhole

(* Entries that write no file: nothing, directories, or an error.          *)
LEMMA FilesUntouched ==
  ASSUME IInv, TypeOK', Files(disk') = Files(disk),
         \A q \in Files(disk) : disk'[q] = disk[q],
         extractedFiles' >= extractedFiles,
         UNCHANGED <<backend, tree, limits>>,
         phase' # "listed",
         phase' = "extracting" =>
           /\ phase = "extracting"
           /\ backend = "docker" => PlainFiles \cap unread \subseteq unread'
  PROVE  IInv'
<1>1. FilesCounted'
  <2>1. IsFiniteSet(Files(disk')) /\ Cardinality(Files(disk')) <= extractedFiles
    BY DEF IInv, FilesCounted
  <2>2. Cardinality(Files(disk')) \in Nat
    BY <2>1, FS_CardinalityType
  <2> QED
    BY <2>1, <2>2 DEF FilesCounted, IInv, TypeOK
<1>2. FilesWithinLimit' /\ EachWithinLimit'
  BY DEF IInv, FilesWithinLimit, EachWithinLimit
<1>3. ASSUME phase' = "extracting", NEW q \in Files(disk')
      PROVE  WholeFile(q)'
  <2>1. WholeFile(q)
    BY <1>3 DEF IInv, WholeSoFar
  <2> QED
    BY <2>1 DEF WholeFile, Target, Header, PlainFiles
<1>4. PlainFiles' = PlainFiles
  BY DEF PlainFiles
<1>5. NothingSkipped'
  BY <1>4 DEF IInv, NothingSkipped
<1> QED
  BY <1>1, <1>2, <1>3, <1>5 DEF IInv, WholeSoFar, ListedIsWhole

(* A file is written: wholly, or in part when the extraction ends there.   *)
LEMMA FileWritten ==
  ASSUME IInv, TypeOK', NEW p \in unread, ReadFile(p), ~TooMuch(p),
         NEW n \in Int, n <= tree[p].size,
         disk' = WithFile(Target(p), p, n),
         phase' # "listed",
         phase' = "extracting" => n = tree[p].size
  PROVE  IInv'
<1>1. /\ p \in PlainFiles
      /\ tree[p].size \in Nat
      /\ phase = "extracting"
      /\ extractedFiles \in Nat /\ extractedFiles' = extractedFiles + 1
      /\ UNCHANGED <<backend, tree, limits, artifacts>>
      /\ unread' = unread \ {p}
  BY FileRead DEF IInv
<1>2. /\ Files(disk') = Files(disk) \cup {Target(p)}
      /\ disk'[Target(p)] = [kind |-> "file", from |-> p, size |-> n]
      /\ \A q \in Files(disk) \ {Target(p)} : disk'[q] = disk[q]
  BY OneFileWritten
<1>3. /\ IsFiniteSet(Files(disk'))
      /\ Cardinality(Files(disk')) \in Nat
      /\ Cardinality(Files(disk')) <= extractedFiles + 1
  <2>1. /\ IsFiniteSet(Files(disk))
        /\ Cardinality(Files(disk)) \in Nat
        /\ Cardinality(Files(disk)) <= extractedFiles
    BY FS_CardinalityType DEF IInv, FilesCounted
  <2>2. /\ IsFiniteSet(Files(disk) \cup {Target(p)})
        /\ Cardinality(Files(disk) \cup {Target(p)}) =
             IF Target(p) \in Files(disk) THEN Cardinality(Files(disk))
             ELSE Cardinality(Files(disk)) + 1
    BY <2>1, FS_AddElement
  <2> QED
    BY <1>1, <1>2, <2>1, <2>2
<1>4. limits.maxFiles \in Int /\ limits.maxFileBytes \in Int
  BY TreeTyping DEF IInv
<1>5. FilesCounted'
  BY <1>1, <1>3 DEF FilesCounted
<1>6. FilesWithinLimit'
  <2>1. ~Exceeds(extractedFiles + 1, limits.maxFiles)
    BY DEF TooMuch
  <2> QED
    BY <1>1, <1>3, <1>4, <2>1 DEF FilesWithinLimit, Exceeds
<1>7. EachWithinLimit'
  <2>1. ~Exceeds(tree[p].size, limits.maxFileBytes)
    BY DEF TooMuch
  <2>2. ~Exceeds(n, limits.maxFileBytes)
    BY <1>1, <1>4, <2>1 DEF Exceeds
  <2>3. \A q \in Files(disk) : ~Exceeds(disk[q].size, limits.maxFileBytes)
    BY DEF IInv, EachWithinLimit
  <2>4. \A q \in Files(disk') : ~Exceeds(disk'[q].size, limits.maxFileBytes)
    BY <1>2, <2>2, <2>3
  <2> QED
    BY <1>1, <2>4 DEF EachWithinLimit
<1>8. WholeSoFar'
  <2> SUFFICES ASSUME phase' = "extracting", NEW q \in Files(disk')
               PROVE  WholeFile(q)'
    BY DEF WholeSoFar
  <2>1. CASE q = Target(p)
    BY <1>1, <1>2, <2>1 DEF WholeFile, Target, Header, PlainFiles
  <2>2. CASE q # Target(p)
    <3>1. q \in Files(disk) /\ disk'[q] = disk[q]
      BY <1>2, <2>2
    <3>2. WholeFile(q)
      BY <1>1, <3>1 DEF IInv, WholeSoFar
    <3> QED
      BY <1>1, <3>1, <3>2 DEF WholeFile, Target, Header, PlainFiles
  <2> QED BY <2>1, <2>2
<1>9. NothingSkipped'
  <2> SUFFICES ASSUME phase' = "extracting", backend = "docker"
               PROVE  PlainFiles \ unread' \subseteq Files(disk')
    BY <1>1 DEF NothingSkipped, PlainFiles
  <2>1. Target(p) = p
    BY <1>1, TreeTyping, DockerKeepsPaths DEF IInv
  <2> QED
    BY <1>1, <1>2, <2>1 DEF IInv, NothingSkipped
<1> QED
  BY <1>5, <1>6, <1>7, <1>8, <1>9 DEF IInv, ListedIsWhole

(* Every step keeps the types; an addition that wraps is a number all the  *)
(* same.                                                                   *)
LEMMA TypePreserved == TypeOK /\ [Next]_vars => TypeOK'
<1> SUFFICES ASSUME TypeOK, [Next]_vars PROVE TypeOK'
  OBVIOUS
<1> USE DEF TypeOK
<1>1. ASSUME NEW p \in unread, Skip(p) PROVE TypeOK'
  BY <1>1 DEF Skip, Read, given
<1>2. ASSUME NEW p \in unread, MakeDir(p) PROVE TypeOK'
  <2>1. CASE UNCHANGED disk
    BY <1>2, <2>1 DEF MakeDir, Read, given
  <2>2. CASE disk' = WithDirs(DirsTo(Target(p))) /\ UNCHANGED phase
    <3>1. \A q \in DOMAIN disk' : disk'[q].kind \in {"dir", "file"}
      BY <2>2, DirsKeepFiles
    <3> QED
      BY <1>2, <2>2, <3>1 DEF MakeDir, Read, given
  <2> QED
    BY <1>2, <2>1, <2>2 DEF MakeDir
<1>3. ASSUME NEW p \in unread, Refuse(p) PROVE TypeOK'
  BY <1>3 DEF Refuse, ReadFile, Read, given
<1>4. ASSUME NEW p \in unread, CannotOpen(p) PROVE TypeOK'
  <2>1. \A q \in DOMAIN disk' : disk'[q].kind \in {"dir", "file"}
    <3>1. disk' = disk \/ \E ps : disk' = WithDirs(ps)
      BY <1>4 DEF CannotOpen
    <3>2. \A ps, q : q \in DOMAIN WithDirs(ps)
            => WithDirs(ps)[q].kind \in {"dir", "file"}
      BY DirsKeepFiles
    <3>3. CASE disk' = disk
      BY <3>3
    <3>4. CASE \E ps : disk' = WithDirs(ps)
      BY <3>2, <3>4
    <3> QED BY <3>1, <3>3, <3>4
  <2> QED
    BY <1>4, <2>1 DEF CannotOpen, ReadFile, Read, given
<1>5. ASSUME NEW p \in unread, WriteFile(p) PROVE TypeOK'
  <2>1. \A q \in DOMAIN disk' : disk'[q].kind \in {"dir", "file"}
    BY <1>5, OneFileWritten DEF WriteFile
  <2>2. p \in DOMAIN tree /\ p # <<>>
    BY <1>5 DEF WriteFile, ReadFile, Kind
  <2>3. p \in PlainFiles
    BY <1>5, <2>2 DEF WriteFile, ReadFile, Kind, Target, PlainFiles
  <2>4. tree[p].size \in Nat
    BY <2>3, TreeTyping
  <2>5. extractedBytes' \in Int
    BY <1>5, <2>4, LimitsAssumption DEF WriteFile, Wrap
  <2> QED
    BY <1>5, <2>1, <2>5 DEF WriteFile, ReadFile, Read, given
<1>6. ASSUME NEW p \in unread, ShortCopy(p) PROVE TypeOK'
  <2>1. \A q \in DOMAIN disk' : disk'[q].kind \in {"dir", "file"}
    <3>1. PICK n : disk' = WithFile(Target(p), p, n)
      BY <1>6 DEF ShortCopy
    <3> QED BY <3>1, OneFileWritten
  <2> QED
    BY <1>6, <2>1 DEF ShortCopy, ReadFile, Read, given
<1>7. CASE GiveUp
  BY <1>7 DEF GiveUp, given
<1>8. CASE Finish
  BY <1>8 DEF Finish, given
<1>9. CASE UNCHANGED vars
  BY <1>9 DEF vars, given
<1> QED
  BY <1>1, <1>2, <1>3, <1>4, <1>5, <1>6, <1>7, <1>8, <1>9 DEF Next, Entry

(* io.EOF (extract.go:45, manager.go:717-731): everything has been read.   *)
LEMMA FinishLists == IInv /\ TypeOK' /\ Finish => IInv'
<1> SUFFICES ASSUME IInv, TypeOK', Finish PROVE IInv'
  OBVIOUS
<1>1. /\ phase = "extracting" /\ unread = {} /\ phase' = "listed"
      /\ artifacts' = {[path |-> p, size |-> disk[p].size] : p \in Files(disk)}
      /\ UNCHANGED <<backend, tree, limits, disk, extractedFiles>>
  BY DEF Finish, given
<1>2. \A p \in Files(disk) : WholeFile(p)
  BY <1>1 DEF IInv, WholeSoFar
<1>3. (\A p \in Files(disk) : WholeFile(p))'
  BY <1>1, <1>2 DEF WholeFile, Target, Header, PlainFiles
<1>4. ASSUME backend = "docker"
      PROVE  {[path |-> p, size |-> disk[p].size] : p \in Files(disk)}
               = {[path |-> p, size |-> tree[p].size] : p \in PlainFiles}
  <2>1. PlainFiles \subseteq Files(disk)
    BY <1>1, <1>4 DEF IInv, NothingSkipped
  <2>2. \A p \in Files(disk) : p \in PlainFiles /\ disk[p].size = tree[p].size
    <3> TAKE p \in Files(disk)
    <3>1. disk[p].from \in PlainFiles
          /\ Target(disk[p].from) = p
          /\ disk[p].size = tree[disk[p].from].size
      BY <1>2 DEF WholeFile
    <3>2. disk[p].from = p
      BY <1>4, <3>1, TreeTyping, DockerKeepsPaths DEF IInv
    <3> QED BY <3>1, <3>2
  <2>3. Files(disk) = PlainFiles
    BY <2>1, <2>2
  <2> QED BY <2>2, <2>3
<1>5. ListedIsWhole'
  BY <1>1, <1>3, <1>4 DEF ListedIsWhole, PlainFiles
<1> QED
  BY <1>1, <1>5 DEF IInv, FilesCounted, FilesWithinLimit, EachWithinLimit,
                    WholeSoFar, NothingSkipped

(* Each entry of the archive, and its end, keeps the invariant.            *)
THEOREM InvariantKept == IInv /\ [Next]_vars => IInv'
<1> SUFFICES ASSUME IInv, [Next]_vars PROVE IInv'
  OBVIOUS
<1>0. TypeOK /\ TypeOK'
  BY TypePreserved DEF IInv
<1>1. ASSUME NEW p \in unread, Skip(p) PROVE IInv'
  <2>1. backend = "docker" => PlainFiles \cap unread \subseteq unread'
    <3>1. Target(p) # <<>> => Kind(p) # "file"
      BY <1>1 DEF Skip
    <3>2. ASSUME backend = "docker" PROVE p \notin PlainFiles
      <4>1. CASE p \in PlainFiles
        <5>1. p \in Paths /\ ~Climbs(p)
          BY <1>0, <4>1, TreeTyping
        <5>2. Target(p) # <<>>
          BY <3>2, <5>1, DockerKeepsPaths DEF Paths
        <5> QED BY <1>0, <3>1, <4>1, <5>2, TreeTyping DEF Kind, PlainFiles
      <4> QED BY <4>1
    <3> QED BY <1>1, <3>2 DEF Skip, Read
  <2>2. /\ UNCHANGED <<backend, tree, limits, disk, extractedFiles, phase>>
        /\ phase = "extracting"
    BY <1>1 DEF Skip, Read, given
  <2> QED
    BY <1>0, <2>1, <2>2, FilesUntouched DEF TypeOK
<1>2. ASSUME NEW p \in unread, MakeDir(p) PROVE IInv'
  <2>1. /\ UNCHANGED <<backend, tree, limits, extractedFiles>>
        /\ phase = "extracting" /\ unread' = unread \ {p}
        /\ phase' \in {"extracting", "blocked"}
        /\ disk' = disk \/ disk' = WithDirs(DirsTo(Target(p)))
    BY <1>2 DEF MakeDir, Read, given
  <2>2. p \notin PlainFiles
    BY <1>0, <1>2, TreeTyping DEF MakeDir, Kind, PlainFiles
  <2>3. Files(disk') = Files(disk) /\ \A q \in Files(disk) : disk'[q] = disk[q]
    BY <2>1, DirsKeepFiles
  <2> QED
    BY <1>0, <2>1, <2>2, <2>3, FilesUntouched DEF TypeOK
<1>3. ASSUME NEW p \in unread, Refuse(p) PROVE IInv'
  <2>1. /\ UNCHANGED <<backend, tree, limits, disk>>
        /\ extractedFiles \in Nat /\ extractedFiles' = extractedFiles + 1
        /\ phase' = "refused"
    BY <1>0, <1>3, FileRead DEF Refuse
  <2> QED
    BY <1>0, <2>1, FilesUntouched
<1>4. ASSUME NEW p \in unread, CannotOpen(p) PROVE IInv'
  <2>1. /\ UNCHANGED <<backend, tree, limits>>
        /\ extractedFiles \in Nat /\ extractedFiles' = extractedFiles + 1
        /\ phase' = "blocked"
    BY <1>0, <1>4, FileRead DEF CannotOpen
  <2>2. disk' = disk \/ \E ps : disk' = WithDirs(ps)
    BY <1>4 DEF CannotOpen
  <2>3. Files(disk') = Files(disk) /\ \A q \in Files(disk) : disk'[q] = disk[q]
    BY <2>2, DirsKeepFiles
  <2> QED
    BY <1>0, <2>1, <2>3, FilesUntouched
<1>5. ASSUME NEW p \in unread, WriteFile(p) PROVE IInv'
  <2>1. tree[p].size \in Nat /\ phase' = "extracting"
    BY <1>0, <1>5, FileRead DEF WriteFile
  <2> QED
    BY <1>0, <1>5, <2>1, FileWritten DEF WriteFile
<1>6. ASSUME NEW p \in unread, ShortCopy(p) PROVE IInv'
  <2>1. ReadFile(p) /\ ~TooMuch(p) /\ phase' = "broken" /\ tree[p].size \in Nat
    BY <1>0, <1>6, FileRead DEF ShortCopy
  <2>2. PICK n \in 0 .. tree[p].size : disk' = WithFile(Target(p), p, n)
    BY <1>6 DEF ShortCopy
  <2>3. n \in Int /\ n <= tree[p].size
    BY <2>1, <2>2
  <2> QED
    BY <1>0, <2>1, <2>2, <2>3, FileWritten
<1>7. CASE GiveUp
  <2>1. /\ UNCHANGED <<backend, tree, limits, disk, extractedFiles>>
        /\ phase' = "broken"
    BY <1>7 DEF GiveUp, given
  <2> QED
    BY <1>0, <2>1, FilesUntouched DEF TypeOK
<1>8. CASE Finish
  BY <1>0, <1>8, FinishLists
<1>9. CASE UNCHANGED vars
  BY <1>0, <1>9
  DEF vars, given, IInv, FilesCounted, FilesWithinLimit, EachWithinLimit,
      WholeSoFar, NothingSkipped, ListedIsWhole, WholeFile, Target, Header,
      PlainFiles
<1> QED
  BY <1>1, <1>2, <1>3, <1>4, <1>5, <1>6, <1>7, <1>8, <1>9 DEF Next, Entry

(* The inductive invariant holds for every tree, limits and executor: the  *)
(* disk holds no more files than are counted, and whole ones only.         *)
THEOREM InvariantHolds == Spec => []IInv
BY Initialisation, InvariantKept, PTL DEF Spec

(* What a run lists are whole files of its sandbox and, with Docker, every *)
(* file under its own path but for further names of a file (hard links)    *)
(* and paths with a ".." between backslashes, whatever the sandbox holds   *)
(* and however the extraction goes (extract.go:37-147, manager.go:706-731).*)
THEOREM ListedIsWholeHolds == Spec => []ListedIsWhole
<1>1. IInv => ListedIsWhole
  BY DEF IInv
<1> QED BY <1>1, InvariantHolds, PTL

(* At every moment, also in the middle of a failing extraction, the number *)
(* of files and the size of each respect the limits (extract.go:91-101).   *)
THEOREM LimitsHold == Spec => [](FilesWithinLimit /\ EachWithinLimit)
<1>1. IInv => FilesWithinLimit /\ EachWithinLimit
  BY DEF IInv
<1> QED BY <1>1, InvariantHolds, PTL

-----------------------------------------------------------------------------
(* Totals. MapThenSumSet is a recursive function on the subsets of a set;  *)
(* what it computes for every finite set is proved by a counterexample     *)
(* that is smallest: strict inclusion is well-founded on finite sets.      *)

(* Induction over a finite set, by a counterexample that is smallest.      *)
LEMMA Smallest ==
  ASSUME NEW S, IsFiniteSet(S), NEW B, B \subseteq SUBSET S, B # {}
  PROVE  \E T \in B : \A U \in B : U \subseteq T => U = T
<1>1. IsWellFoundedOn(StrictSubsetOrdering(S), SUBSET S)
  BY FS_FiniteSubsetsOfFinite, FS_StrictSubsetOrderingWellFounded
<1>2. PICK T \in B : \A U \in B : ~(<<U, T>> \in StrictSubsetOrdering(S))
  BY <1>1, WFMin
<1>3. \A U \in B : U \subseteq T => U = T
  BY <1>2 DEF StrictSubsetOrdering
<1> QED
  BY <1>3

(* The function by which MapThenSumSet computes the total of a set: one    *)
(* element is taken after the other.                                       *)
First(s) == CHOOSE x \in s : TRUE
SumsUp(t, S, g) ==
  g = [s \in SUBSET S |->
         IF s = {} THEN 0 ELSE t[First(s)].size + g[s \ {First(s)}]]

(* What the community module computes, in these words.                     *)
LEMMA TotalByFunction ==
  ASSUME NEW t, NEW S
  PROVE  TotalOf(t, S) = (CHOOSE g : SumsUp(t, S, g))[S]
  BY DEF TotalOf, MapThenSumSet, MapThenFoldSet, SumsUp, First

(* The element that is taken first is one of the set.                      *)
LEMMA FirstIn ==
  ASSUME NEW S, S # {}
  PROVE  First(S) \in S
  BY DEF First

(* There is at most one such function ...                                  *)
LEMMA SumsAgree ==
  ASSUME NEW t, NEW S, IsFiniteSet(S), NEW A, NEW B,
         S \subseteq A, S \subseteq B,
         NEW g, SumsUp(t, A, g), NEW h, SumsUp(t, B, h)
  PROVE  g[S] = h[S]
<1> DEFINE Wrong == {s \in SUBSET S : g[s] # h[s]}
<1>1. SUFFICES ASSUME Wrong # {} PROVE FALSE
  OBVIOUS
<1>2. PICK T \in Wrong : \A U \in Wrong : U \subseteq T => U = T
  <2>1. Wrong \subseteq SUBSET S
    OBVIOUS
  <2> HIDE DEF Wrong
  <2> QED
    BY <1>1, <2>1, Smallest
<1>3. /\ g[T] = IF T = {} THEN 0 ELSE t[First(T)].size + g[T \ {First(T)}]
      /\ h[T] = IF T = {} THEN 0 ELSE t[First(T)].size + h[T \ {First(T)}]
  <2>1. T \in SUBSET A /\ T \in SUBSET B
    OBVIOUS
  <2> QED
    BY <2>1 DEF SumsUp
<1>4. T # {} /\ g[T] # h[T]
  BY <1>3
<1>5. First(T) \in T
  BY <1>4, FirstIn
<1>6. g[T \ {First(T)}] = h[T \ {First(T)}]
  BY <1>2, <1>5
<1> QED
  BY <1>3, <1>4, <1>6

(* ... and where there is one, the total is what it takes first and the    *)
(* total of the rest.                                                      *)
Unfolds(t, S) ==
  TotalOf(t, S) = IF S = {} THEN 0
                  ELSE t[First(S)].size + TotalOf(t, S \ {First(S)})

LEMMA UnfoldsIfSummed ==
  ASSUME NEW t, NEW S, IsFiniteSet(S),
         \A U \in SUBSET S : \E g : SumsUp(t, U, g)
  PROVE  Unfolds(t, S)
<1>1. PICK g : SumsUp(t, S, g) /\ TotalOf(t, S) = g[S]
  BY TotalByFunction
<1>2. g[S] = IF S = {} THEN 0 ELSE t[First(S)].size + g[S \ {First(S)}]
  BY <1>1 DEF SumsUp
<1>3. CASE S = {}
  BY <1>1, <1>2, <1>3 DEF Unfolds
<1>4. CASE S # {}
  <2> DEFINE U == S \ {First(S)}
  <2>1. PICK h : SumsUp(t, U, h) /\ TotalOf(t, U) = h[U]
    BY TotalByFunction
  <2>2. IsFiniteSet(U)
    BY FS_Subset
  <2>3. g[U] = h[U]
    BY <1>1, <2>1, <2>2, SumsAgree
  <2> QED
    BY <1>1, <1>2, <1>4, <2>1, <2>3 DEF Unfolds
<1> QED
  BY <1>3, <1>4

(* There is one for every finite set.                                      *)
LEMMA SumsExist ==
  ASSUME NEW t, NEW S, IsFiniteSet(S)
  PROVE  \A U \in SUBSET S : \E g : SumsUp(t, U, g)
<1> DEFINE Wrong == {U \in SUBSET S : ~ \E g : SumsUp(t, U, g)}
<1>1. SUFFICES ASSUME Wrong # {} PROVE FALSE
  OBVIOUS
<1>2. PICK T \in Wrong : \A U \in Wrong : U \subseteq T => U = T
  <2>1. Wrong \subseteq SUBSET S
    OBVIOUS
  <2> HIDE DEF Wrong
  <2> QED
    BY <1>1, <2>1, Smallest
<1>3. \A U \in SUBSET T : U # T => Unfolds(t, U)
  <2> SUFFICES ASSUME NEW U \in SUBSET T, U # T PROVE Unfolds(t, U)
    OBVIOUS
  <2>1. \A V \in SUBSET U : \E g : SumsUp(t, V, g)
    BY <1>2
  <2>2. IsFiniteSet(U)
    BY FS_Subset
  <2> QED
    BY <2>1, <2>2, UnfoldsIfSummed
<1> DEFINE Step(s, rest) == IF s = {} THEN 0 ELSE t[First(s)].size + rest
           G == [s \in SUBSET T |-> Step(s, TotalOf(t, s \ {First(s)}))]
<1>4. \A s \in SUBSET T : s # {} => G[s \ {First(s)}] = TotalOf(t, s \ {First(s)})
  <2> SUFFICES ASSUME NEW s \in SUBSET T, s # {}
               PROVE  G[s \ {First(s)}] = TotalOf(t, s \ {First(s)})
    OBVIOUS
  <2> DEFINE U == s \ {First(s)}
  <2>1. U \in SUBSET T /\ U # T
    BY FirstIn
  <2>2. G[U] = Step(U, TotalOf(t, U \ {First(U)}))
    BY <2>1
  <2> QED
    BY <1>3, <2>1, <2>2 DEF Unfolds
<1>5. SumsUp(t, T, G)
  BY <1>4 DEF SumsUp
<1> QED
  BY <1>5

(* So the total of every finite set is what is taken first and the rest.   *)
LEMMA TotalUnfolds ==
  ASSUME NEW t, NEW S, IsFiniteSet(S)
  PROVE  Unfolds(t, S)
  BY SumsExist, UnfoldsIfSummed

(* Sizes are numbers.                                                      *)
Sized(t, S) == \A p \in S : t[p].size \in Nat

LEMMA TotalIsNumber ==
  ASSUME NEW t, NEW S, IsFiniteSet(S), Sized(t, S)
  PROVE  TotalOf(t, S) \in Nat
<1> DEFINE Wrong == {U \in SUBSET S : TotalOf(t, U) \notin Nat}
<1>1. SUFFICES ASSUME Wrong # {} PROVE FALSE
  OBVIOUS
<1>2. PICK T \in Wrong : \A U \in Wrong : U \subseteq T => U = T
  <2>1. Wrong \subseteq SUBSET S
    OBVIOUS
  <2> HIDE DEF Wrong
  <2> QED
    BY <1>1, <2>1, Smallest
<1>3. T \subseteq S /\ IsFiniteSet(T)
  BY FS_Subset
<1>4. Unfolds(t, T) /\ T # {}
  BY <1>2, <1>3, TotalUnfolds DEF Unfolds
<1>5. First(T) \in T
  BY <1>4, FirstIn
<1>6. TotalOf(t, T \ {First(T)}) \in Nat /\ t[First(T)].size \in Nat
  BY <1>2, <1>3, <1>5 DEF Sized
<1> QED
  BY <1>2, <1>4, <1>6 DEF Unfolds

(* Whichever element is taken first, the total is the same.                *)
LEMMA TotalWithout ==
  ASSUME NEW t, NEW S, IsFiniteSet(S), Sized(t, S), NEW e \in S
  PROVE  TotalOf(t, S) = t[e].size + TotalOf(t, S \ {e})
<1> DEFINE Right(U) == \A x \in U : TotalOf(t, U) = t[x].size + TotalOf(t, U \ {x})
           Wrong == {U \in SUBSET S : ~Right(U)}
<1>1. SUFFICES ASSUME Wrong # {} PROVE FALSE
  OBVIOUS
<1>2. PICK T \in Wrong : \A U \in Wrong : U \subseteq T => U = T
  <2>1. Wrong \subseteq SUBSET S
    OBVIOUS
  <2> HIDE DEF Wrong
  <2> QED
    BY <1>1, <2>1, Smallest
<1>3. \A U \in SUBSET T : U # T => Right(U)
  BY <1>2
<1>4. PICK x \in T : TotalOf(t, T) # t[x].size + TotalOf(t, T \ {x})
  OBVIOUS
<1> DEFINE c == First(T)
<1>5. c \in T /\ T \subseteq S
  BY <1>4, FirstIn
<1>6. \A U \in SUBSET T : IsFiniteSet(U) /\ Sized(t, U) /\ TotalOf(t, U) \in Nat
  BY <1>5, FS_Subset, TotalIsNumber DEF Sized
<1>7. TotalOf(t, T) = t[c].size + TotalOf(t, T \ {c})
  <2>1. Unfolds(t, T)
    BY <1>6, TotalUnfolds
  <2> QED
    BY <1>4, <2>1 DEF Unfolds
<1>8. CASE x = c
  BY <1>4, <1>7, <1>8
<1>9. CASE x # c
  <2> HIDE DEF c
  <2> DEFINE R == T \ {c, x}
  <2>1. (T \ {c}) \ {x} = R /\ (T \ {x}) \ {c} = R
    OBVIOUS
  <2>2. T \ {c} # T /\ T \ {x} # T /\ x \in T \ {c} /\ c \in T \ {x}
    BY <1>5, <1>9
  <2>3. Right(T \ {c}) /\ Right(T \ {x})
    <3> HIDE DEF Right
    <3> QED
      BY <1>3, <2>2
  <2>4. /\ TotalOf(t, T \ {c}) = t[x].size + TotalOf(t, R)
        /\ TotalOf(t, T \ {x}) = t[c].size + TotalOf(t, R)
    BY <2>1, <2>2, <2>3
  <2>5. t[x].size \in Nat /\ t[c].size \in Nat /\ TotalOf(t, R) \in Nat
    BY <1>5, <1>6 DEF Sized
  <2> HIDE DEF R
  <2> QED
    BY <1>4, <1>7, <2>4, <2>5
<1> QED
  BY <1>8, <1>9

(* A part has no larger total than the whole.                              *)
LEMMA TotalOfPart ==
  ASSUME NEW t, NEW S, IsFiniteSet(S), Sized(t, S), NEW R, R \subseteq S
  PROVE  TotalOf(t, R) <= TotalOf(t, S)
<1> DEFINE Wrong == {U \in SUBSET S : \E V \in SUBSET U : ~(TotalOf(t, V) <= TotalOf(t, U))}
<1>1. SUFFICES ASSUME Wrong # {} PROVE FALSE
  OBVIOUS
<1>2. PICK T \in Wrong : \A U \in Wrong : U \subseteq T => U = T
  <2>1. Wrong \subseteq SUBSET S
    OBVIOUS
  <2> HIDE DEF Wrong
  <2> QED
    BY <1>1, <2>1, Smallest
<1>3. PICK V \in SUBSET T : ~(TotalOf(t, V) <= TotalOf(t, T))
  OBVIOUS
<1>4. \A U \in SUBSET T : IsFiniteSet(U) /\ Sized(t, U) /\ TotalOf(t, U) \in Nat
  BY FS_Subset, TotalIsNumber DEF Sized
<1>5. PICK x \in T : x \notin V
  BY <1>3, <1>4
<1>6. TotalOf(t, V) <= TotalOf(t, T \ {x})
  <2>1. T \ {x} \notin Wrong
    BY <1>2, <1>5
  <2>2. V \in SUBSET (T \ {x}) /\ T \ {x} \in SUBSET S
    BY <1>5
  <2> QED
    BY <2>1, <2>2
<1>7. TotalOf(t, T) = t[x].size + TotalOf(t, T \ {x})
  BY <1>4, TotalWithout
<1>8. t[x].size \in Nat
  BY <1>4 DEF Sized
<1> QED
  BY <1>3, <1>4, <1>6, <1>7, <1>8

(* Only the sizes count.                                                   *)
LEMMA TotalOfSame ==
  ASSUME NEW t, NEW u, NEW S, IsFiniteSet(S), \A p \in S : t[p].size = u[p].size
  PROVE  TotalOf(t, S) = TotalOf(u, S)
<1> DEFINE Wrong == {U \in SUBSET S : TotalOf(t, U) # TotalOf(u, U)}
<1>1. SUFFICES ASSUME Wrong # {} PROVE FALSE
  OBVIOUS
<1>2. PICK T \in Wrong : \A U \in Wrong : U \subseteq T => U = T
  <2>1. Wrong \subseteq SUBSET S
    OBVIOUS
  <2> HIDE DEF Wrong
  <2> QED
    BY <1>1, <2>1, Smallest
<1>3. T \subseteq S /\ IsFiniteSet(T)
  BY FS_Subset
<1>4. Unfolds(t, T) /\ Unfolds(u, T)
  BY <1>3, TotalUnfolds
<1>5. T # {}
  BY <1>2, <1>4 DEF Unfolds
<1>6. First(T) \in T
  BY <1>5, FirstIn
<1>7. TotalOf(t, T \ {First(T)}) = TotalOf(u, T \ {First(T)})
  BY <1>2, <1>6
<1> QED
  BY <1>2, <1>3, <1>4, <1>5, <1>6, <1>7 DEF Unfolds

-----------------------------------------------------------------------------
(* What IInv does not say: how the counters, the total on disk and the     *)
(* directories relate to what was read. Only then the limits of the total  *)
(* and the reasons of a failure follow.                                    *)

SizesOnDisk == Sized(disk, Files(disk))

(* The counters never run ahead of what was read, not even when the sum of *)
(* the sizes overflows (extract.go:91-104, 142).                           *)
ReadSoFar == PlainFiles \ unread
CountersBehind ==
  /\ extractedBytes >= -(MaxInt + 1)
  /\ phase = "extracting" =>
       /\ extractedFiles <= Cardinality(ReadSoFar)
       /\ extractedBytes <= TotalOf(tree, ReadSoFar)

(* With limits that fit an int64 together, nothing overflows: the total on *)
(* disk is no more than was counted, and that is within the limit.         *)
Prudent ==
  /\ limits.maxFileBytes > 0 /\ limits.maxTotalBytes > 0
  /\ limits.maxFileBytes + limits.maxTotalBytes <= MaxInt
TotalKept ==
  Prudent =>
    /\ TotalOf(disk, Files(disk)) <= limits.maxTotalBytes
    /\ phase = "extracting" =>
         /\ TotalOf(disk, Files(disk)) <= extractedBytes
         /\ extractedBytes <= limits.maxTotalBytes

(* With Docker, a directory on disk is one in the sandbox, or the          *)
(* archive's own.                                                          *)
Above(d) == d \in DOMAIN tree /\ tree[d].kind = "dir"
DirsAreDirs ==
  phase = "extracting" /\ backend = "docker" =>
    \A d \in DOMAIN disk \ Files(disk) : d = <<"artifacts">> \/ Above(d)

Reckoning ==
  SizesOnDisk /\ CountersBehind /\ TotalKept /\ DirsAreDirs /\ FailsForCause

(* int64 addition is exact as long as the sum fits, and never yields more  *)
(* than the sum of a number that fits and a size.                          *)
LEMMA WrapBounds ==
  ASSUME NEW n \in Int, n >= -(MaxInt + 1)
  PROVE  /\ Wrap(n) \in Int /\ Wrap(n) >= -(MaxInt + 1) /\ Wrap(n) <= n
         /\ n <= MaxInt => Wrap(n) = n
<1> DEFINE k == MaxInt + 1
           m == n + k
<1>1. k \in Nat \ {0} /\ m \in Nat
  BY LimitsAssumption
<1>2. m % (2 * k) \in 0 .. 2 * k - 1
  <2> HIDE DEF k, m
  <2> QED
    BY <1>1
<1>3. m % (2 * k) <= m
  <2> HIDE DEF k, m
  <2> QED
    BY <1>1, <1>2
<1>4. m < 2 * k => m % (2 * k) = m
  <2> HIDE DEF k, m
  <2> QED
    BY <1>1
<1>5. Wrap(n) = (m % (2 * k)) - k
  BY LimitsAssumption DEF Wrap
<1> QED
  <2>1. m = n + k /\ k = MaxInt + 1
    OBVIOUS
  <2>2. MaxInt \in Nat
    BY LimitsAssumption
  <2> HIDE DEF k, m
  <2> QED
    BY <1>1, <1>2, <1>3, <1>4, <1>5, <2>1, <2>2

(* A tree is finite, and its files have sizes.                             *)
LEMMA TreeTotals ==
  ASSUME TypeOK
  PROVE  /\ IsFiniteSet(PlainFiles) /\ Sized(tree, PlainFiles)
         /\ \A U \in SUBSET PlainFiles :
              /\ IsFiniteSet(U) /\ Sized(tree, U)
              /\ Cardinality(U) \in Nat /\ TotalOf(tree, U) \in Nat
         /\ limits.maxTotalBytes \in Int
<1>1. IsFiniteSet(DOMAIN tree)
  BY TreesAssumption DEF TypeOK, IsTree
<1>2. IsFiniteSet(PlainFiles) /\ Sized(tree, PlainFiles)
  BY <1>1, TreeTyping, FS_Subset DEF PlainFiles, Sized
<1>3. ASSUME NEW U \in SUBSET PlainFiles
      PROVE  /\ IsFiniteSet(U) /\ Sized(tree, U)
             /\ Cardinality(U) \in Nat /\ TotalOf(tree, U) \in Nat
  <2>1. IsFiniteSet(U) /\ Sized(tree, U)
    BY <1>2, FS_Subset DEF Sized
  <2> QED
    BY <2>1, FS_CardinalityType, TotalIsNumber
<1>4. limits.maxTotalBytes \in Int
  BY LimitsAssumption DEF TypeOK
<1> QED
  BY <1>2, <1>3, <1>4

(* Before a file of the tree is read it is not counted: there is room for  *)
(* it between what was read and all there is.                              *)
LEMMA NextFileCounts ==
  ASSUME TypeOK, NEW p \in PlainFiles, p \in unread
  PROVE  /\ Cardinality(ReadSoFar \cup {p}) = Cardinality(ReadSoFar) + 1
         /\ TotalOf(tree, ReadSoFar \cup {p})
              = TotalOf(tree, ReadSoFar) + tree[p].size
         /\ Cardinality(ReadSoFar \cup {p}) <= Cardinality(PlainFiles)
         /\ TotalOf(tree, ReadSoFar \cup {p}) <= TotalOf(tree, PlainFiles)
<1> DEFINE R == ReadSoFar \cup {p}
<1>1. /\ R \in SUBSET PlainFiles /\ ReadSoFar \in SUBSET PlainFiles
      /\ p \notin ReadSoFar /\ p \in R /\ R \ {p} = ReadSoFar
  BY DEF ReadSoFar
<1>2. Cardinality(R) = Cardinality(ReadSoFar) + 1
  BY <1>1, TreeTotals, FS_AddElement
<1> HIDE DEF R
<1>3. TotalOf(tree, R) = tree[p].size + TotalOf(tree, ReadSoFar)
  BY <1>1, TreeTotals, TotalWithout
<1>4. Cardinality(R) <= Cardinality(PlainFiles)
  BY <1>1, TreeTotals, FS_Subset
<1>5. TotalOf(tree, R) <= TotalOf(tree, PlainFiles)
  BY <1>1, TreeTotals, TotalOfPart
<1>6. tree[p].size \in Nat /\ TotalOf(tree, ReadSoFar) \in Nat
  BY <1>1, TreeTotals DEF Sized
<1> QED
  BY <1>2, <1>3, <1>4, <1>5, <1>6 DEF R

(* What an extraction refuses, it refuses for cause: what is too much for  *)
(* the counters is too much in the sandbox (extract.go:91-101).            *)
LEMMA RefusedForCause ==
  ASSUME IInv, Reckoning, NEW p \in unread, ReadFile(p), TooMuch(p), p \in PlainFiles
  PROVE  \/ Exceeds(Cardinality(PlainFiles), limits.maxFiles)
         \/ \E q \in PlainFiles : Exceeds(tree[q].size, limits.maxFileBytes)
         \/ Exceeds(TotalOf(tree, PlainFiles), limits.maxTotalBytes)
<1>1. TypeOK /\ phase = "extracting" /\ CountersBehind
  BY DEF IInv, Reckoning, ReadFile, Read
<1>2. /\ Cardinality(PlainFiles) \in Nat /\ TotalOf(tree, PlainFiles) \in Nat
      /\ Cardinality(ReadSoFar) \in Nat /\ TotalOf(tree, ReadSoFar) \in Nat
      /\ tree[p].size \in Nat
      /\ limits.maxTotalBytes \in Int /\ limits.maxFiles \in Int
      /\ extractedFiles \in Nat /\ extractedBytes \in Int
  BY <1>1, TreeTotals, TreeTyping DEF ReadSoFar, Sized, TypeOK
<1>3. /\ extractedFiles + 1 <= Cardinality(PlainFiles)
      /\ extractedBytes + tree[p].size <= TotalOf(tree, PlainFiles)
  <2>1. /\ extractedFiles <= Cardinality(ReadSoFar)
        /\ extractedBytes <= TotalOf(tree, ReadSoFar)
    BY <1>1 DEF CountersBehind
  <2>2. /\ Cardinality(ReadSoFar) + 1 <= Cardinality(PlainFiles)
        /\ TotalOf(tree, ReadSoFar) + tree[p].size <= TotalOf(tree, PlainFiles)
    BY <1>1, NextFileCounts
  <2> QED
    BY <1>2, <2>1, <2>2
<1>4. CASE Exceeds(extractedFiles + 1, limits.maxFiles)
  BY <1>2, <1>3, <1>4 DEF Exceeds
<1>5. CASE Exceeds(tree[p].size, limits.maxFileBytes)
  BY <1>5
<1>6. CASE Exceeds(Wrap(extractedBytes + tree[p].size), limits.maxTotalBytes)
  <2>1. extractedBytes >= -(MaxInt + 1) /\ MaxInt \in Nat
    BY <1>1, LimitsAssumption DEF CountersBehind
  <2>2. /\ Wrap(extractedBytes + tree[p].size) \in Int
        /\ Wrap(extractedBytes + tree[p].size) <= extractedBytes + tree[p].size
    BY <1>2, <2>1, WrapBounds
  <2> QED
    BY <1>2, <1>3, <1>6, <2>2 DEF Exceeds
<1> QED
  BY <1>4, <1>5, <1>6 DEF TooMuch
-----------------------------------------------------------------------------
(* Paths: the first names of a path ...                                    *)
LEMMA PrefixOf ==
  ASSUME NEW S, NEW p \in Seq(S), NEW n \in 0 .. Len(p)
  PROVE  /\ SubSeq(p, 1, n) \in Seq(S) /\ Len(SubSeq(p, 1, n)) = n
         /\ \A i \in 1 .. n : SubSeq(p, 1, n)[i] = p[i]
<1>1. n \in Int /\ n >= 0 /\ Len(p) \in Nat
  OBVIOUS
<1>2. \A i \in 1 .. n : p[i] \in S
  BY <1>1
<1>3. /\ SubSeq(p, 1, n) \in Seq(S)
      /\ Len(SubSeq(p, 1, n)) = IF 1 <= n THEN n - 1 + 1 ELSE 0
      /\ \A i \in 1 .. n - 1 + 1 : SubSeq(p, 1, n)[i] = p[1 + i - 1]
  BY <1>1, <1>2, SubSeqProperties
<1>4. \A i \in 1 .. n : 1 + i - 1 = i /\ i \in 1 .. n - 1 + 1
  BY <1>1
<1> QED
  BY <1>1, <1>3, <1>4

(* ... and what lies above an entry of the sandbox is a directory there.   *)
LEMMA AboveEntries ==
  ASSUME TypeOK, NEW p \in DOMAIN tree
  PROVE  /\ \A d \in DirsTo(Parent(p)) : Above(d)
         /\ \A d \in DirsTo(p) : d = p \/ Above(d)
<1>1. /\ p \in Paths
      /\ \A n \in 1 .. Len(p) - 1 : Above(SubSeq(p, 1, n))
  BY TreesAssumption DEF TypeOK, IsTree, Above
<1>2. p \in Seq(Names) /\ Len(p) \in Nat /\ Len(p) > 0
  BY <1>1 DEF Paths
<1>3. SubSeq(p, 1, Len(p)) = p
  BY <1>2, PrefixOf, SeqEqual
<1>4. ASSUME NEW d \in DirsTo(p) PROVE d = p \/ Above(d)
  <2>1. PICK n \in 1 .. Len(p) : d = SubSeq(p, 1, n)
    BY <1>4 DEF DirsTo
  <2>2. n = Len(p) \/ n \in 1 .. Len(p) - 1
    BY <1>2
  <2> QED
    BY <1>1, <1>3, <2>1, <2>2
<1>5. ASSUME NEW d \in DirsTo(Parent(p)) PROVE Above(d)
  <2> DEFINE q == SubSeq(p, 1, Len(p) - 1)
  <2>1. /\ q \in Seq(Names) /\ Len(q) = Len(p) - 1
        /\ \A i \in 1 .. Len(p) - 1 : q[i] = p[i]
    <3>1. Len(p) - 1 \in 0 .. Len(p)
      BY <1>2
    <3> QED
      BY <1>2, <3>1, PrefixOf
  <2>2. Parent(p) = q
    BY DEF Parent
  <2> HIDE DEF q
  <2>3. PICK n \in 1 .. Len(p) - 1 : d = SubSeq(q, 1, n)
    BY <2>1, <2>2 DEF DirsTo
  <2>4. /\ d \in Seq(Names) /\ Len(d) = n
        /\ \A i \in 1 .. n : d[i] = q[i]
    BY <1>2, <2>1, <2>3, PrefixOf
  <2> DEFINE r == SubSeq(p, 1, n)
  <2>5. /\ r \in Seq(Names) /\ Len(r) = n
        /\ \A i \in 1 .. n : r[i] = p[i]
    BY <1>2, <2>3, PrefixOf
  <2>6. \A i \in 1 .. n : d[i] = r[i]
    BY <1>2, <2>1, <2>3, <2>4, <2>5
  <2> HIDE DEF r
  <2>7. d = r
    BY <2>4, <2>5, <2>6, SeqEqual
  <2> QED
    BY <1>1, <2>3, <2>7 DEF r
<1> QED
  BY <1>4, <1>5

(* Docker's archive begins with the directory that was copied              *)
(* (extract.go:65-76).                                                     *)
LEMMA DockerRoot ==
  ASSUME backend = "docker"
  PROVE  Target(<<>>) = <<"artifacts">> /\ DirsTo(<<"artifacts">>) = {<<"artifacts">>}
<1> DEFINE h == <<"artifacts">>
<1>1. h \in Seq({"artifacts"}) /\ Len(h) = 1 /\ h[1] = "artifacts" /\ Head(h) = "artifacts"
  OBVIOUS
<1>2. h \o <<>> = h
  OBVIOUS
<1>3. Header(<<>>) = h
  BY <1>2 DEF Header
<1>4. SubSeq(h, 1, 1) = h
  <2>1. 1 \in 0 .. Len(h)
    BY <1>1
  <2> HIDE DEF h
  <2>2. /\ SubSeq(h, 1, 1) \in Seq({"artifacts"}) /\ Len(SubSeq(h, 1, 1)) = 1
        /\ \A i \in 1 .. 1 : SubSeq(h, 1, 1)[i] = h[i]
    BY <1>1, <2>1, PrefixOf
  <2> QED
    BY <1>1, <2>2, SeqEqual
<1>5. DirsTo(h) = {h}
  BY <1>1, <1>4 DEF DirsTo
<1> HIDE DEF h
<1>6. Target(<<>>) = h
  <2>1. Clean(h) = h
    BY <1>1 DEF Clean
  <2>2. Strip(h) = h
    BY <1>1 DEF Strip
  <2>3. ~Climbs(<<>>)
    BY DEF Climbs
  <2> QED
    BY <1>3, <2>1, <2>2, <2>3 DEF Target
<1> QED
  BY <1>5, <1>6 DEF h

(* What is on disk of Docker's archive has the path it has in the sandbox. *)
LEMMA DockerFilesOnDisk ==
  ASSUME IInv, phase = "extracting", backend = "docker"
  PROVE  Files(disk) \subseteq PlainFiles
<1> SUFFICES ASSUME NEW q \in Files(disk) PROVE q \in PlainFiles
  OBVIOUS
<1>1. disk[q].from \in PlainFiles /\ Target(disk[q].from) = q
  BY DEF IInv, WholeSoFar, WholeFile
<1>2. Target(disk[q].from) = disk[q].from
  BY <1>1, TreeTyping, DockerKeepsPaths DEF IInv
<1> QED
  BY <1>1, <1>2

(* With Docker nothing is in the way of a directory, unless a file of the  *)
(* sandbox has the name of the archive's own (extract.go:86-89).           *)
LEMMA DirBlockedForCause ==
  ASSUME IInv, Reckoning, NEW p \in unread, MakeDir(p), backend = "docker"
  PROVE  /\ Blocked(Target(p)) => <<"artifacts">> \in PlainFiles
         /\ \A d \in DirsTo(Target(p)) : d = <<"artifacts">> \/ Above(d)
<1>1. TypeOK /\ phase = "extracting" /\ Kind(p) = "dir"
  BY DEF IInv, MakeDir, Read
<1>2. Files(disk) \subseteq PlainFiles
  BY <1>1, DockerFilesOnDisk
<1>3. \A d \in PlainFiles : ~Above(d)
  BY DEF PlainFiles, Above
<1>4. CASE p = <<>>
  BY <1>2, <1>4, DockerRoot DEF Blocked
<1>5. CASE p # <<>>
  <2>1. p \in DOMAIN tree /\ Above(p)
    BY <1>1, <1>5 DEF TypeOK, Kind, Above
  <2>2. p \in Paths
    BY <1>1, <2>1, TreesAssumption DEF TypeOK, IsTree
  <2>3. Target(p) = p
    BY <2>2, DockerKeepsPaths DEF MakeDir, Target
  <2>4. \A d \in DirsTo(p) : Above(d)
    BY <1>1, <2>1, AboveEntries
  <2>5. DirsTo(p) \cap Files(disk) = {}
    BY <1>2, <1>3, <2>4
  <2> QED
    BY <2>3, <2>4, <2>5 DEF Blocked
<1> QED
  BY <1>4, <1>5

(* ... nor of a file (extract.go:106-112).                                 *)
LEMMA FileBlockedForCause ==
  ASSUME IInv, Reckoning, NEW p \in unread, ReadFile(p), p \in PlainFiles,
         backend = "docker"
  PROVE  /\ Target(p) = p
         /\ ~CanOpen(p) => <<"artifacts">> \in PlainFiles
         /\ \A d \in DirsTo(Parent(Target(p))) : Above(d)
<1>1. TypeOK /\ phase = "extracting" /\ DirsAreDirs
  BY DEF IInv, ReadFile, Read, Reckoning
<1>2. Files(disk) \subseteq PlainFiles
  BY <1>1, DockerFilesOnDisk
<1>3. \A d \in PlainFiles : ~Above(d)
  BY DEF PlainFiles, Above
<1>4. Target(p) = p /\ p \in DOMAIN tree
  BY <1>1, TreeTyping, DockerKeepsPaths DEF PlainFiles
<1>5. \A d \in DirsTo(Parent(p)) : Above(d)
  BY <1>1, <1>4, AboveEntries
<1>6. ~Blocked(Parent(p))
  BY <1>2, <1>3, <1>5 DEF Blocked
<1>7. p \in DOMAIN disk \ Files(disk) => p = <<"artifacts">>
  BY <1>1, <1>3 DEF DirsAreDirs
<1> QED
  BY <1>4, <1>5, <1>6, <1>7 DEF CanOpen

-----------------------------------------------------------------------------
(* The steps. The files on disk are finitely many, and what is there of    *)
(* them has a size that a sum can take.                                    *)
LEMMA DiskTotals ==
  ASSUME IInv, Reckoning
  PROVE  /\ IsFiniteSet(Files(disk)) /\ Sized(disk, Files(disk))
         /\ TotalOf(disk, Files(disk)) \in Nat
<1>1. IsFiniteSet(Files(disk)) /\ Sized(disk, Files(disk))
  BY DEF IInv, FilesCounted, Reckoning, SizesOnDisk
<1> QED
  BY <1>1, TotalIsNumber

(* Entries that write no file leave the counters and the totals behind.    *)
LEMMA NothingWritten ==
  ASSUME IInv, Reckoning,
         UNCHANGED <<backend, tree, limits, extractedBytes>>,
         Files(disk') = Files(disk), \A q \in Files(disk) : disk'[q] = disk[q],
         unread' \subseteq unread,
         phase' = "extracting" =>
           phase = "extracting" /\ extractedFiles' = extractedFiles,
         DirsAreDirs', FailsForCause'
  PROVE  Reckoning'
<1>1. TypeOK /\ CountersBehind /\ TotalKept
  BY DEF IInv, Reckoning
<1>2. TotalOf(disk', Files(disk')) = TotalOf(disk, Files(disk))
  BY DiskTotals, TotalOfSame
<1>3. SizesOnDisk'
  BY DiskTotals DEF SizesOnDisk, Sized
<1>4. TotalKept'
  <2>1. Prudent' = Prudent
    BY DEF Prudent
  <2> QED
    BY <1>1, <1>2, <2>1 DEF TotalKept
<1>5. CountersBehind'
  <2>1. ReadSoFar \subseteq PlainFiles \ unread' /\ PlainFiles' = PlainFiles
    BY DEF ReadSoFar, PlainFiles
  <2> DEFINE R == PlainFiles \ unread'
  <2>2. R \in SUBSET PlainFiles /\ ReadSoFar \in SUBSET PlainFiles
    BY DEF ReadSoFar
  <2>3. ReadSoFar' = R
    BY <2>1 DEF ReadSoFar
  <2> HIDE DEF R
  <2>4. /\ Cardinality(ReadSoFar) <= Cardinality(R)
        /\ TotalOf(tree, ReadSoFar) <= TotalOf(tree, R)
    BY <1>1, <2>1, <2>2, TreeTotals, FS_Subset, TotalOfPart DEF R
  <2>5. /\ Cardinality(ReadSoFar) \in Nat /\ Cardinality(R) \in Nat
        /\ TotalOf(tree, ReadSoFar) \in Nat /\ TotalOf(tree, R) \in Nat
        /\ extractedFiles \in Nat /\ extractedBytes \in Int
    BY <1>1, <2>2, TreeTotals DEF TypeOK
  <2>6. ASSUME phase' = "extracting"
        PROVE  /\ extractedFiles' <= Cardinality(R)
               /\ extractedBytes' <= TotalOf(tree, R)
    BY <1>1, <2>4, <2>5, <2>6 DEF CountersBehind
  <2> QED
    BY <1>1, <2>3, <2>6 DEF CountersBehind
<1> QED
  BY <1>3, <1>4, <1>5 DEF Reckoning

(* Before a file is written the sum of the sizes has been found to fit     *)
(* (extract.go:91-104, 142).                                               *)
LEMMA SumFits ==
  ASSUME IInv, Reckoning, NEW p \in PlainFiles, phase = "extracting", ~TooMuch(p)
  PROVE  /\ Wrap(extractedBytes + tree[p].size) \in Int
         /\ Wrap(extractedBytes + tree[p].size) >= -(MaxInt + 1)
         /\ Wrap(extractedBytes + tree[p].size) <= extractedBytes + tree[p].size
         /\ Prudent =>
              /\ Wrap(extractedBytes + tree[p].size)
                   = extractedBytes + tree[p].size
              /\ extractedBytes + tree[p].size <= limits.maxTotalBytes
<1>1. /\ tree[p].size \in Nat /\ MaxInt \in Nat
      /\ extractedBytes \in Int /\ extractedBytes >= -(MaxInt + 1)
      /\ limits.maxFileBytes \in Int /\ limits.maxTotalBytes \in Int
  BY LimitsAssumption, TreeTyping, TreeTotals
  DEF IInv, TypeOK, Reckoning, CountersBehind
<1>2. /\ extractedBytes + tree[p].size \in Int
      /\ extractedBytes + tree[p].size >= -(MaxInt + 1)
  BY <1>1
<1>3. /\ Wrap(extractedBytes + tree[p].size) \in Int
      /\ Wrap(extractedBytes + tree[p].size) >= -(MaxInt + 1)
      /\ Wrap(extractedBytes + tree[p].size) <= extractedBytes + tree[p].size
      /\ extractedBytes + tree[p].size <= MaxInt =>
           Wrap(extractedBytes + tree[p].size) = extractedBytes + tree[p].size
  BY <1>2, WrapBounds
<1>4. ASSUME Prudent
      PROVE  /\ extractedBytes + tree[p].size <= MaxInt
             /\ ~Exceeds(Wrap(extractedBytes + tree[p].size), limits.maxTotalBytes)
  <2>1. extractedBytes <= limits.maxTotalBytes
    BY <1>4 DEF Reckoning, TotalKept
  <2>2. /\ ~Exceeds(tree[p].size, limits.maxFileBytes)
        /\ ~Exceeds(Wrap(extractedBytes + tree[p].size), limits.maxTotalBytes)
    BY DEF TooMuch
  <2>3. tree[p].size <= limits.maxFileBytes
    BY <1>1, <1>4, <2>2 DEF Exceeds, Prudent
  <2> QED
    BY <1>1, <1>4, <2>1, <2>2, <2>3 DEF Prudent
<1>5. ASSUME Prudent
      PROVE  extractedBytes + tree[p].size <= limits.maxTotalBytes
  BY <1>1, <1>2, <1>3, <1>4, <1>5 DEF Exceeds, Prudent
<1> QED
  BY <1>3, <1>4, <1>5

(* A file that is written, wholly or in part, adds no more to the disk     *)
(* than to the counters; a file that it replaces makes room.               *)
LEMMA WrittenTotal ==
  ASSUME IInv, Reckoning, NEW p, NEW from, NEW n \in Nat,
         disk' = WithFile(p, from, n)
  PROVE  /\ SizesOnDisk'
         /\ TotalOf(disk', Files(disk')) <= TotalOf(disk, Files(disk)) + n
         /\ TotalOf(disk', Files(disk')) \in Nat
<1> DEFINE F == Files(disk)
           G == Files(disk) \cup {p}
<1>1. /\ Files(disk') = G
      /\ disk'[p] = [kind |-> "file", from |-> from, size |-> n]
      /\ \A q \in F \ {p} : disk'[q] = disk[q]
  BY OneFileWritten
<1>2. /\ IsFiniteSet(F) /\ Sized(disk, F) /\ TotalOf(disk, F) \in Nat
  BY DiskTotals
<1>3. /\ IsFiniteSet(G) /\ p \in G /\ G \ {p} = F \ {p} /\ F \ {p} \subseteq F
  BY <1>2, FS_AddElement
<1>4. Sized(disk', G)
  BY <1>1, <1>2 DEF Sized
<1> HIDE DEF F, G
<1>5. TotalOf(disk', G) = disk'[p].size + TotalOf(disk', G \ {p})
  BY <1>3, <1>4, TotalWithout
<1>6. IsFiniteSet(F \ {p}) /\ Sized(disk, F \ {p})
  BY <1>2, <1>3, FS_Subset DEF Sized
<1>7. TotalOf(disk', F \ {p}) = TotalOf(disk, F \ {p})
  BY <1>1, <1>6, TotalOfSame
<1>8. TotalOf(disk, F \ {p}) <= TotalOf(disk, F) /\ TotalOf(disk, F \ {p}) \in Nat
  BY <1>2, <1>3, <1>6, TotalOfPart, TotalIsNumber
<1>9. SizesOnDisk'
  BY <1>1, <1>4 DEF SizesOnDisk, Sized
<1>10. TotalOf(disk', G) = n + TotalOf(disk, F \ {p})
  BY <1>1, <1>3, <1>5, <1>7
<1>11. TotalOf(disk', G) <= TotalOf(disk, F) + n /\ TotalOf(disk', G) \in Nat
  BY <1>2, <1>8, <1>10
<1> QED
  BY <1>1, <1>9, <1>11 DEF F

(* The directories of a file that is written are directories of the        *)
(* sandbox, with Docker.                                                   *)
LEMMA WrittenDirs ==
  ASSUME IInv, Reckoning, NEW p \in unread, ReadFile(p), p \in PlainFiles, NEW n,
         disk' = WithFile(Target(p), p, n), UNCHANGED <<backend, tree>>
  PROVE  DirsAreDirs'
<1> SUFFICES ASSUME backend = "docker", NEW d \in DOMAIN disk' \ Files(disk')
             PROVE  d = <<"artifacts">> \/ Above(d)
  BY DEF DirsAreDirs, Above
<1>1. /\ phase = "extracting" /\ DirsAreDirs
  BY DEF ReadFile, Read, Reckoning
<1>2. \A e \in DirsTo(Parent(Target(p))) : Above(e)
  BY FileBlockedForCause
<1>3. /\ DOMAIN disk' = DOMAIN disk \cup DirsTo(Parent(Target(p))) \cup {Target(p)}
      /\ Files(disk') = Files(disk) \cup {Target(p)}
  BY OneFileWritten DEF WithFile, WithDirs
<1>4. d \in DOMAIN disk \ Files(disk) \/ d \in DirsTo(Parent(Target(p)))
  BY <1>3
<1> QED
  BY <1>1, <1>2, <1>4 DEF DirsAreDirs

(* One more file was read.                                                 *)
LEMMA OneMoreRead ==
  ASSUME TypeOK, NEW p \in PlainFiles, p \in unread, unread' = unread \ {p},
         UNCHANGED tree
  PROVE  ReadSoFar' = ReadSoFar \cup {p}
  BY DEF ReadSoFar, PlainFiles

(* A file is written: the counters follow it, or the extraction ends there *)
(* (extract.go:106-142).                                                   *)
LEMMA FileReckoned ==
  ASSUME IInv, IInv', Reckoning, NEW p \in unread, ReadFile(p), ~TooMuch(p),
         NEW n \in Nat, n <= tree[p].size, disk' = WithFile(Target(p), p, n),
         \/ /\ phase' = "extracting" /\ n = tree[p].size
            /\ extractedBytes' = Wrap(extractedBytes + tree[p].size)
         \/ phase' = "broken" /\ UNCHANGED extractedBytes
  PROVE  Reckoning'
<1>1. /\ p \in PlainFiles /\ tree[p].size \in Nat
      /\ phase = "extracting"
      /\ extractedFiles \in Nat /\ extractedFiles' = extractedFiles + 1
      /\ UNCHANGED <<backend, tree, limits>>
      /\ unread' = unread \ {p}
  BY FileRead DEF IInv
<1>2. TypeOK /\ CountersBehind /\ TotalKept
  BY DEF IInv, Reckoning
<1>3. /\ SizesOnDisk'
      /\ TotalOf(disk', Files(disk')) <= TotalOf(disk, Files(disk)) + n
      /\ TotalOf(disk', Files(disk')) \in Nat
  BY WrittenTotal
<1>4. DirsAreDirs'
  BY <1>1, WrittenDirs
<1>5. FailsForCause'
  BY DEF FailsForCause
<1>6. /\ extractedBytes \in Int /\ limits.maxTotalBytes \in Int
      /\ TotalOf(disk, Files(disk)) \in Nat
      /\ Wrap(extractedBytes + tree[p].size) \in Int
      /\ Wrap(extractedBytes + tree[p].size) >= -(MaxInt + 1)
      /\ Wrap(extractedBytes + tree[p].size) <= extractedBytes + tree[p].size
  BY <1>1, <1>2, TreeTotals, DiskTotals, SumFits DEF TypeOK
<1>7. TotalKept'
  <2> SUFFICES ASSUME Prudent
               PROVE  /\ TotalOf(disk', Files(disk')) <= limits.maxTotalBytes
                      /\ phase' = "extracting" =>
                           /\ TotalOf(disk', Files(disk')) <= extractedBytes'
                           /\ extractedBytes' <= limits.maxTotalBytes
    BY <1>1 DEF TotalKept, Prudent
  <2>1. TotalOf(disk, Files(disk)) <= extractedBytes
    BY <1>1, <1>2 DEF TotalKept
  <2>2. /\ Wrap(extractedBytes + tree[p].size) = extractedBytes + tree[p].size
        /\ extractedBytes + tree[p].size <= limits.maxTotalBytes
    BY <1>1, SumFits
  <2>3. TotalOf(disk', Files(disk')) <= extractedBytes + n
    BY <1>3, <1>6, <2>1
  <2>4. TotalOf(disk', Files(disk')) <= limits.maxTotalBytes
    BY <1>1, <1>3, <1>6, <2>2, <2>3
  <2>5. ASSUME phase' = "extracting"
        PROVE  /\ TotalOf(disk', Files(disk')) <= extractedBytes'
               /\ extractedBytes' <= limits.maxTotalBytes
    BY <2>2, <2>3, <2>5
  <2> QED
    BY <2>4, <2>5
<1>8. CountersBehind'
  <2>1. extractedBytes' >= -(MaxInt + 1)
    BY <1>2, <1>6 DEF CountersBehind
  <2>2. /\ ReadSoFar' = ReadSoFar \cup {p}
        /\ Cardinality(ReadSoFar \cup {p}) = Cardinality(ReadSoFar) + 1
        /\ TotalOf(tree, ReadSoFar \cup {p})
             = TotalOf(tree, ReadSoFar) + tree[p].size
    BY <1>1, <1>2, OneMoreRead, NextFileCounts
  <2>3. Cardinality(ReadSoFar) \in Nat /\ TotalOf(tree, ReadSoFar) \in Nat
    BY <1>2, TreeTotals DEF ReadSoFar
  <2>4. /\ extractedFiles <= Cardinality(ReadSoFar)
        /\ extractedBytes <= TotalOf(tree, ReadSoFar)
    BY <1>1, <1>2 DEF CountersBehind
  <2>5. extractedFiles' <= Cardinality(ReadSoFar')
    BY <1>1, <2>2, <2>3, <2>4
  <2>6. phase' = "extracting" => extractedBytes' <= TotalOf(tree, ReadSoFar')
    BY <1>1, <1>6, <2>2, <2>3, <2>4
  <2> QED
    BY <1>1, <2>1, <2>5, <2>6 DEF CountersBehind
<1> QED
  BY <1>3, <1>4, <1>5, <1>7, <1>8 DEF Reckoning

(* The prime of a conjunct of Reckoning where the phase settles it.        *)
LEMMA NoCauseNeeded ==
  ASSUME phase' \notin {"refused", "blocked"}
  PROVE  FailsForCause'
  BY DEF FailsForCause

(* Nothing is counted and nothing on disk at first.                        *)
LEMMA ReckoningAtFirst == Init => Reckoning
<1> SUFFICES ASSUME Init PROVE Reckoning
  OBVIOUS
<1>1. Files(disk) = {} /\ TypeOK /\ DOMAIN disk = {}
  BY Initialisation DEF Init, Files, IInv
<1>2. SizesOnDisk
  BY <1>1 DEF SizesOnDisk, Sized
<1>3. PlainFiles \subseteq unread
  BY DEF Init, PlainFiles
<1>4. ReadSoFar = {}
  BY <1>3 DEF ReadSoFar
<1>5. TotalOf(tree, {}) = 0 /\ TotalOf(disk, {}) = 0 /\ Cardinality({}) = 0
  BY FS_EmptySet, TotalUnfolds DEF Unfolds
<1>6. MaxInt \in Nat /\ limits.maxTotalBytes \in Int
  BY <1>1, TreeTotals, LimitsAssumption
<1>7. CountersBehind
  BY <1>4, <1>5, <1>6 DEF Init, CountersBehind
<1>8. TotalKept
  <2>1. extractedBytes = 0
    BY DEF Init
  <2>2. TotalOf(disk, Files(disk)) = 0
    BY <1>1, <1>5
  <2> QED
    BY <1>6, <2>1, <2>2 DEF TotalKept, Prudent
<1> QED
  BY <1>1, <1>2, <1>7, <1>8 DEF Init, Reckoning, DirsAreDirs, FailsForCause

(* A directory is made, or something is in its way (extract.go:86-89).     *)
LEMMA MakeDirReckoned ==
  ASSUME IInv, TypeOK', Reckoning, NEW p \in unread, MakeDir(p)
  PROVE  Reckoning'
<1>1. /\ UNCHANGED <<backend, tree, limits, extractedFiles, extractedBytes>>
      /\ phase = "extracting" /\ unread' \subseteq unread
      /\ Target(p) # <<>>
  BY DEF MakeDir, Read, given
<1>2. backend = "docker" =>
        /\ Blocked(Target(p)) => <<"artifacts">> \in PlainFiles
        /\ \A d \in DirsTo(Target(p)) : d = <<"artifacts">> \/ Above(d)
  BY DirBlockedForCause
<1>3. CASE Blocked(Target(p))
  <2>1. phase' = "blocked" /\ UNCHANGED disk
    BY <1>3 DEF MakeDir
  <2>2. FailsForCause'
    BY <1>1, <1>2, <1>3, <2>1 DEF FailsForCause, PlainFiles
  <2>3. DirsAreDirs'
    BY <2>1 DEF DirsAreDirs
  <2> QED
    BY <1>1, <2>1, <2>2, <2>3, NothingWritten
<1>4. CASE ~Blocked(Target(p))
  <2>1. phase' = phase /\ disk' = WithDirs(DirsTo(Target(p)))
    BY <1>4 DEF MakeDir
  <2>2. Files(disk') = Files(disk) /\ \A q \in Files(disk) : disk'[q] = disk[q]
    BY <2>1, DirsKeepFiles
  <2>3. DOMAIN disk' = DOMAIN disk \cup DirsTo(Target(p))
    BY <2>1 DEF WithDirs
  <2>4. DirsAreDirs'
    <3> SUFFICES ASSUME backend = "docker", NEW d \in DOMAIN disk' \ Files(disk')
                 PROVE  d = <<"artifacts">> \/ Above(d)
      BY <1>1 DEF DirsAreDirs, Above
    <3>1. d \in DOMAIN disk \ Files(disk) \/ d \in DirsTo(Target(p))
      BY <2>2, <2>3
    <3> QED
      BY <1>1, <1>2, <3>1 DEF Reckoning, DirsAreDirs
  <2>5. FailsForCause'
    BY <1>1, <2>1, NoCauseNeeded
  <2> QED
    BY <1>1, <2>1, <2>2, <2>4, <2>5, NothingWritten
<1> QED
  BY <1>3, <1>4

(* Something is in the way of a file (extract.go:106-112).                 *)
LEMMA CannotOpenReckoned ==
  ASSUME IInv, TypeOK', Reckoning, NEW p \in unread, CannotOpen(p)
  PROVE  Reckoning'
<1>1. ReadFile(p) /\ ~CanOpen(p) /\ phase' = "blocked" /\ UNCHANGED extractedBytes
  BY DEF CannotOpen, CanOpen
<1>2. /\ p \in PlainFiles /\ unread' \subseteq unread
      /\ UNCHANGED <<backend, tree, limits>>
  BY <1>1, FileRead DEF IInv
<1>3. disk' = disk \/ \E ps : disk' = WithDirs(ps)
  BY DEF CannotOpen
<1>4. Files(disk') = Files(disk) /\ \A q \in Files(disk) : disk'[q] = disk[q]
  BY <1>3, DirsKeepFiles
<1>5. backend = "docker" => <<"artifacts">> \in PlainFiles
  BY <1>1, <1>2, FileBlockedForCause
<1>6. FailsForCause'
  BY <1>1, <1>2, <1>5 DEF FailsForCause, PlainFiles
<1>7. DirsAreDirs'
  BY <1>1 DEF DirsAreDirs
<1> QED
  BY <1>1, <1>2, <1>4, <1>6, <1>7, NothingWritten

(* A file is refused (extract.go:91-101).                                  *)
LEMMA RefuseReckoned ==
  ASSUME IInv, TypeOK', Reckoning, NEW p \in unread, Refuse(p)
  PROVE  Reckoning'
<1>1. /\ ReadFile(p) /\ TooMuch(p) /\ phase' = "refused"
      /\ UNCHANGED <<disk, extractedBytes>>
  BY DEF Refuse
<1>2. /\ p \in PlainFiles /\ unread' \subseteq unread
      /\ UNCHANGED <<backend, tree, limits>>
  BY <1>1, FileRead DEF IInv
<1>3. \/ Exceeds(Cardinality(PlainFiles), limits.maxFiles)
      \/ \E q \in PlainFiles : Exceeds(tree[q].size, limits.maxFileBytes)
      \/ Exceeds(TotalOf(tree, PlainFiles), limits.maxTotalBytes)
  BY <1>1, <1>2, RefusedForCause
<1>4. FailsForCause'
  <2>1. PlainFiles' = PlainFiles
    BY <1>2 DEF PlainFiles
  <2> QED
    BY <1>1, <1>2, <1>3, <2>1 DEF FailsForCause
<1>5. DirsAreDirs'
  BY <1>1 DEF DirsAreDirs
<1> QED
  BY <1>1, <1>2, <1>4, <1>5, NothingWritten

(* Every step keeps Reckoning ...                                          *)
LEMMA ReckoningKept == IInv /\ IInv' /\ Reckoning /\ [Next]_vars => Reckoning'
<1> SUFFICES ASSUME IInv, IInv', Reckoning, [Next]_vars PROVE Reckoning'
  OBVIOUS
<1>0. TypeOK /\ TypeOK' /\ DirsAreDirs /\ FailsForCause
  BY DEF IInv, Reckoning
<1>1. ASSUME NEW p \in unread, Skip(p) PROVE Reckoning'
  <2>1. /\ UNCHANGED <<backend, tree, limits, disk, extractedFiles, extractedBytes>>
        /\ UNCHANGED phase /\ phase = "extracting" /\ unread' \subseteq unread
    BY <1>1 DEF Skip, Read, given
  <2>2. FailsForCause'
    BY <2>1, NoCauseNeeded
  <2>3. DirsAreDirs'
    BY <1>0, <2>1 DEF DirsAreDirs, Above
  <2> QED
    BY <2>1, <2>2, <2>3, NothingWritten
<1>2. ASSUME NEW p \in unread, MakeDir(p) PROVE Reckoning'
  BY <1>0, <1>2, MakeDirReckoned
<1>3. ASSUME NEW p \in unread, Refuse(p) PROVE Reckoning'
  BY <1>0, <1>3, RefuseReckoned
<1>4. ASSUME NEW p \in unread, CannotOpen(p) PROVE Reckoning'
  BY <1>0, <1>4, CannotOpenReckoned
<1>5. ASSUME NEW p \in unread, WriteFile(p) PROVE Reckoning'
  <2>1. tree[p].size \in Nat /\ phase' = "extracting"
    BY <1>0, <1>5, FileRead DEF WriteFile
  <2>2. /\ ReadFile(p) /\ ~TooMuch(p)
        /\ disk' = WithFile(Target(p), p, tree[p].size)
        /\ extractedBytes' = Wrap(extractedBytes + tree[p].size)
    BY <1>5 DEF WriteFile
  <2>3. tree[p].size <= tree[p].size
    BY <2>1
  <2> QED
    BY <2>1, <2>2, <2>3, FileReckoned
<1>6. ASSUME NEW p \in unread, ShortCopy(p) PROVE Reckoning'
  <2>1. /\ ReadFile(p) /\ ~TooMuch(p) /\ phase' = "broken"
        /\ UNCHANGED extractedBytes /\ tree[p].size \in Nat
    BY <1>0, <1>6, FileRead DEF ShortCopy
  <2>2. PICK n \in 0 .. tree[p].size : disk' = WithFile(Target(p), p, n)
    BY <1>6 DEF ShortCopy
  <2>3. n \in Nat /\ n <= tree[p].size
    BY <2>1, <2>2
  <2> QED
    BY <2>1, <2>2, <2>3, FileReckoned
<1>7. CASE GiveUp \/ Finish
  <2>1. /\ UNCHANGED <<backend, tree, limits, unread, disk, extractedBytes>>
        /\ phase' \in {"broken", "listed"}
    BY <1>7 DEF GiveUp, Finish, given
  <2>2. FailsForCause' /\ DirsAreDirs'
    BY <2>1, NoCauseNeeded DEF DirsAreDirs
  <2> QED
    BY <2>1, <2>2, NothingWritten
<1>8. CASE UNCHANGED vars
  <2>1. /\ UNCHANGED <<backend, tree, limits, unread, disk>>
        /\ UNCHANGED <<extractedFiles, extractedBytes, phase>>
    BY <1>8 DEF vars, given
  <2>2. FailsForCause'
    BY <1>0, <2>1 DEF FailsForCause, PlainFiles
  <2>3. DirsAreDirs'
    BY <1>0, <2>1 DEF DirsAreDirs, Above
  <2> QED
    BY <2>1, <2>2, <2>3, NothingWritten
<1> QED
  BY <1>1, <1>2, <1>3, <1>4, <1>5, <1>6, <1>7, <1>8 DEF Next, Entry

(* ... so it holds in all behaviours.                                      *)
LEMMA ReckoningHolds == Spec => []Reckoning
  BY ReckoningAtFirst, ReckoningKept, InvariantHolds, PTL DEF Spec

(* At every moment, also in the middle of a file that is cut short, what   *)
(* is on the server's disk respects all three limits: the number of files, *)
(* the size of each and, where the limits together fit an int64, their sum *)
(* (extract.go:91-142).                                                    *)
THEOREM DiskWithinLimitsHolds == Spec => []DiskWithinLimits
<1>1. IInv /\ Reckoning => DiskWithinLimits
  <2> SUFFICES ASSUME IInv, Reckoning PROVE TotalWithinLimit
    BY DEF IInv, DiskWithinLimits
  <2>1. limits.maxTotalBytes \in Int
    BY TreeTotals DEF IInv
  <2> QED
    BY <2>1, DiskTotals
    DEF Reckoning, TotalKept, Prudent, TotalWithinLimit, Exceeds
<1> QED
  BY <1>1, InvariantHolds, ReckoningHolds, PTL

(* An extraction that is refused has cause: the sandbox holds more than a  *)
(* limit allows, whatever the sum of the sizes does in an int64. And with  *)
(* Docker nothing is ever in the way, except of a file called "artifacts"  *)
(* (extract.go:65-112).                                                    *)
THEOREM FailsForCauseHolds == Spec => []FailsForCause
<1>1. Reckoning => FailsForCause
  BY DEF Reckoning
<1> QED
  BY <1>1, ReckoningHolds, PTL
=============================================================================
