----------------------------- MODULE Extraction -----------------------------
(***************************************************************************)
(* internal/artifacts/extract.go and extractArtifacts of                   *)
(* internal/runs/manager.go: the files below /artifacts of a sandbox come  *)
(* as a tar archive, which differs between the two executors, and are      *)
(* written one entry at a time under configured limits. RunManager has the *)
(* outcome only: ExtractOk is `Finish' here, ExtractFails all the rest.    *)
(*                                                                         *)
(* A path is a sequence of names, relative to /artifacts or to the run's   *)
(* directory on the host. Contents are told apart by where they come from. *)
(***************************************************************************)
EXTENDS Integers, Sequences, FiniteSets, FiniteSetsExt

CONSTANTS
  Names,        \* file names; never "." or ".."
  DotDotNames,  \* those that have a part ".." between backslashes, as "..\x"
  Trees,        \* what may lie below /artifacts: functions of paths
  Limits,       \* the ExtractLimits that may be configured
  MaxInt        \* the largest int64

Paths == Seq(Names) \ {<<>>}
Parent(p) == SubSeq(p, 1, Len(p) - 1)

\* A member of a tree. Of the names of one file (hard links) the first that
\* tar finds is the "file" and the others are a "link" to it. Symbolic links,
\* sockets and the like are "other".
Nodes == [kind : {"dir", "file", "link", "other"}, size : 0 .. MaxInt]

\* Finitely many, each of them below directories, and links with their file.
IsTree(t) ==
  /\ IsFiniteSet(DOMAIN t)
  /\ \A p \in DOMAIN t :
       /\ p \in Paths /\ t[p] \in Nodes
       /\ \A n \in 1 .. Len(p) - 1 :
            SubSeq(p, 1, n) \in DOMAIN t /\ t[SubSeq(p, 1, n)].kind = "dir"
       /\ t[p].kind = "link" =>
            \E q \in DOMAIN t : t[q] = [kind |-> "file", size |-> t[p].size]

ASSUME NamesAssumption ==
  /\ "." \notin Names /\ ".." \notin Names
  /\ DotDotNames \subseteq Names
ASSUME TreesAssumption == \A t \in Trees : IsTree(t)
ASSUME LimitsAssumption ==
  /\ MaxInt \in Nat \ {0}
  /\ \A l \in Limits :
       /\ DOMAIN l = {"maxTotalBytes", "maxFiles", "maxFileBytes"}
       /\ \A f \in DOMAIN l : l[f] \in Int

VARIABLES
  backend,         \* which executor the server was started with
  tree,            \* what tar finds below /artifacts
  limits,          \* ExtractLimits
  unread,          \* the entries of the archive that are still to come
  disk,            \* the run's directory: a function of paths
  extractedFiles,
  extractedBytes,
  phase,           \* where extractArtifacts is, or why it gave up
  artifacts        \* run.Artifacts: what GetRun and the manifest show

given == <<backend, tree, limits>>
vars ==
  <<given, unread, disk, extractedFiles, extractedBytes, phase, artifacts>>

Files(d) == {p \in DOMAIN d : d[p].kind = "file"}

-----------------------------------------------------------------------------
(* The archive, and where its entries go                                   *)

\* 0 and negative limits both mean unlimited.
Exceeds(n, limit) == limit > 0 /\ n > limit

\* Docker's copy of /artifacts has the directory's own name in front of every
\* entry; `tar -C /artifacts -cf - .', run in the pod, has ".".
Header(p) == <<IF backend = "docker" THEN "artifacts" ELSE ".">> \o p

\* The path below the run's directory, <<>> for an entry that is skipped:
\* cleaned of ".", and without its first element unless that is all there is.
\* Backslashes count as slashes when ".." is looked for.
Climbs(p) == \E n \in DOMAIN p : p[n] \in DotDotNames
Clean(h) == IF Head(h) = "." THEN Tail(h) ELSE h
Strip(h) == IF Len(h) > 1 THEN Tail(h) ELSE h
Target(p) == IF Climbs(p) THEN <<>> ELSE Strip(Clean(Header(p)))

\* int64 addition
Wrap(n) == ((n + MaxInt + 1) % (2 * (MaxInt + 1))) - (MaxInt + 1)

Init ==
  /\ backend \in {"docker", "kubernetes"}
  /\ tree \in Trees
  /\ limits \in Limits
  /\ unread = DOMAIN tree \cup {<<>>}
  /\ disk = <<>>
  /\ extractedFiles = 0
  /\ extractedBytes = 0
  /\ phase = "extracting"
  /\ artifacts = {}

\* os.MkdirAll of a path fails where one of the directories is a file.
DirsTo(p) == {SubSeq(p, 1, n) : n \in 1 .. Len(p)}
Blocked(p) == DirsTo(p) \cap Files(disk) # {}
WithDirs(ps) ==
  [p \in DOMAIN disk \cup ps |->
     IF p \in DOMAIN disk THEN disk[p]
     ELSE [kind |-> "dir", from |-> <<>>, size |-> 0]]

\* os.OpenFile with O_CREATE and O_TRUNC, and what was copied.
WithFile(p, from, size) ==
  [WithDirs(DirsTo(Parent(p)) \cup {p}) EXCEPT
     ![p] = [kind |-> "file", from |-> from, size |-> size]]

-----------------------------------------------------------------------------
(* One entry                                                               *)

\* tar.Next: a directory comes before what is in it.
Read(p) ==
  /\ phase = "extracting"
  /\ p \in unread
  /\ p # <<>> => Parent(p) \notin unread
  /\ unread' = unread \ {p}
  /\ UNCHANGED given

Kind(p) == IF p = <<>> THEN "dir" ELSE tree[p].kind

\* An entry without a target, or neither a directory nor a regular file, as a
\* link is not: silently, and without being counted.
Skip(p) ==
  /\ Read(p)
  /\ Target(p) = <<>> \/ Kind(p) \in {"link", "other"}
  /\ UNCHANGED <<disk, extractedFiles, extractedBytes, phase, artifacts>>

MakeDir(p) ==
  /\ Read(p)
  /\ Target(p) # <<>> /\ Kind(p) = "dir"
  /\ IF Blocked(Target(p))
     THEN phase' = "blocked" /\ UNCHANGED disk
     ELSE disk' = WithDirs(DirsTo(Target(p))) /\ UNCHANGED phase
  /\ UNCHANGED <<extractedFiles, extractedBytes, artifacts>>

\* A regular file is counted before it is checked.
ReadFile(p) ==
  /\ Read(p)
  /\ Target(p) # <<>> /\ Kind(p) = "file"
  /\ extractedFiles' = extractedFiles + 1
  /\ UNCHANGED artifacts

\* A TooMuch that adds the size of the file only after the check.
TooMuchAfterwards(p) ==
  \/ Exceeds(extractedFiles + 1, limits.maxFiles)
  \/ Exceeds(tree[p].size, limits.maxFileBytes)
  \/ Exceeds(extractedBytes, limits.maxTotalBytes)

\* A TooMuch that compares the number of files with >=.
TooMuchTooEarly(p) ==
  \/ Exceeds(extractedFiles + 2, limits.maxFiles)
  \/ Exceeds(tree[p].size, limits.maxFileBytes)
  \/ Exceeds(Wrap(extractedBytes + tree[p].size), limits.maxTotalBytes)

TooMuch(p) ==
  \/ Exceeds(extractedFiles + 1, limits.maxFiles)
  \/ Exceeds(tree[p].size, limits.maxFileBytes)
  \/ Exceeds(Wrap(extractedBytes + tree[p].size), limits.maxTotalBytes)

Refuse(p) ==
  /\ ReadFile(p)
  /\ TooMuch(p)
  /\ phase' = "refused"
  /\ UNCHANGED <<disk, extractedBytes>>

\* A file is in the way of a directory, or a directory of the file.
CannotOpen(p) ==
  /\ ReadFile(p)
  /\ ~TooMuch(p)
  /\ phase' = "blocked"
  /\ UNCHANGED extractedBytes
  /\ LET dir == Parent(Target(p)) IN
     \/ Blocked(dir) /\ UNCHANGED disk
     \/ /\ ~Blocked(dir)
        /\ Target(p) \in DOMAIN disk \ Files(disk)
        /\ disk' = WithDirs(DirsTo(dir))

CanOpen(p) ==
  /\ ~Blocked(Parent(Target(p)))
  /\ Target(p) \notin DOMAIN disk \ Files(disk)

WriteFile(p) ==
  /\ ReadFile(p)
  /\ ~TooMuch(p) /\ CanOpen(p)
  /\ disk' = WithFile(Target(p), p, tree[p].size)
  /\ extractedBytes' = Wrap(extractedBytes + tree[p].size)
  /\ UNCHANGED phase

\* A ShortCopy whose error is overlooked.
ShortCopyGoesOn(p) ==
  /\ ReadFile(p)
  /\ ~TooMuch(p) /\ CanOpen(p)
  /\ \E n \in 0 .. tree[p].size - 1 : disk' = WithFile(Target(p), p, n)
  /\ UNCHANGED <<phase, extractedBytes>>

\* The stream or the disk ends in the middle of a file, or the file cannot be
\* closed; what there is stays.
ShortCopy(p) ==
  /\ ReadFile(p)
  /\ ~TooMuch(p) /\ CanOpen(p)
  /\ \E n \in 0 .. tree[p].size : disk' = WithFile(Target(p), p, n)
  /\ phase' = "broken"
  /\ UNCHANGED extractedBytes

Entry(p) ==
  \/ Skip(p) \/ MakeDir(p) \/ Refuse(p) \/ CannotOpen(p)
  \/ WriteFile(p) \/ ShortCopy(p)

-----------------------------------------------------------------------------
(* The end                                                                 *)

\* The directory cannot be prepared, the sandbox cannot be copied from, the
\* archive is broken off or its two minutes are over, or the disk cannot be
\* listed: run.ArtifactsError.
GiveUp ==
  /\ phase = "extracting"
  /\ phase' = "broken"
  /\ UNCHANGED <<given, unread, disk, extractedFiles, extractedBytes, artifacts>>

\* io.EOF, and ListFiles.
Finish ==
  /\ phase = "extracting"
  /\ unread = {}
  /\ phase' = "listed"
  /\ artifacts' = {[path |-> p, size |-> disk[p].size] : p \in Files(disk)}
  /\ UNCHANGED <<given, unread, disk, extractedFiles, extractedBytes>>

Next == (\E p \in unread : Entry(p)) \/ GiveUp \/ Finish

Spec == Init /\ [][Next]_vars

-----------------------------------------------------------------------------
(* Properties                                                              *)

TypeOK ==
  /\ backend \in {"docker", "kubernetes"}
  /\ tree \in Trees
  /\ limits \in Limits
  /\ unread \subseteq DOMAIN tree \cup {<<>>}
  /\ \A p \in DOMAIN disk : disk[p].kind \in {"dir", "file"}
  /\ extractedFiles \in Nat
  /\ extractedBytes \in Int
  /\ phase \in {"extracting", "listed", "refused", "blocked", "broken"}

\* What the extraction takes for a file: neither a link, nor one that is passed
\* over for its name.
PlainFiles == {p \in DOMAIN tree : tree[p].kind = "file" /\ ~Climbs(p)}
TotalOf(t, ps) == MapThenSumSet(LAMBDA p : t[p].size, ps)

\* The limits hold of what is on the server's disk, at every moment and also
\* when the extraction fails in the middle of a file. The total is kept when
\* one file is limited as well, and both limits together fit an int64.
FilesWithinLimit ==
  ~Exceeds(Cardinality(Files(disk)), limits.maxFiles)
EachWithinLimit ==
  \A p \in Files(disk) : ~Exceeds(disk[p].size, limits.maxFileBytes)
TotalWithinLimit ==
  limits.maxFileBytes > 0 /\ limits.maxFileBytes + limits.maxTotalBytes <= MaxInt
    => ~Exceeds(TotalOf(disk, Files(disk)), limits.maxTotalBytes)
DiskWithinLimits == FilesWithinLimit /\ EachWithinLimit /\ TotalWithinLimit

\* What a run lists are whole files of the sandbox, nothing is cut short
\* without an error. With Docker the list has every file under its own path,
\* but for what the code passes over in silence: the further names of a file
\* that has several, and paths with a ".." between backslashes.
WholeFile(p) ==
  /\ disk[p].from \in PlainFiles
  /\ Target(disk[p].from) = p
  /\ disk[p].size = tree[disk[p].from].size
ListedIsWhole ==
  phase = "listed" =>
    /\ \A p \in Files(disk) : WholeFile(p)
    /\ backend = "docker" =>
         artifacts = {[path |-> p, size |-> tree[p].size] : p \in PlainFiles}

\* An extraction is refused only if what it takes from the sandbox is more
\* than a limit allows, even where the sum of the sizes overflows; and with
\* Docker nothing is ever in the way, except of a file that is itself called
\* "artifacts": the archive's own directory is created under that name.
FailsForCause ==
  /\ phase = "refused" =>
       \/ Exceeds(Cardinality(PlainFiles), limits.maxFiles)
       \/ \E p \in PlainFiles : Exceeds(tree[p].size, limits.maxFileBytes)
       \/ Exceeds(TotalOf(tree, PlainFiles), limits.maxTotalBytes)
  /\ phase = "blocked" /\ backend = "docker" => <<"artifacts">> \in PlainFiles

\* README.md says of the artifacts that it is the same for every backend: what
\* is listed has the path that it has below /artifacts.
SameForEveryBackend ==
  phase = "listed" =>
    artifacts = {[path |-> p, size |-> tree[p].size] : p \in PlainFiles}

-----------------------------------------------------------------------------
(* The inductive invariant: DiskWithinLimits and ListedIsWhole speak of    *)
(* the disk; these conjuncts tie it to the counter and to what was read.   *)

FilesCounted ==
  IsFiniteSet(Files(disk)) /\ Cardinality(Files(disk)) <= extractedFiles

WholeSoFar ==
  phase = "extracting" => \A p \in Files(disk) : WholeFile(p)

NothingSkipped ==
  phase = "extracting" /\ backend = "docker" =>
    PlainFiles \ unread \subseteq Files(disk)

IInv ==
  /\ TypeOK
  /\ FilesCounted /\ FilesWithinLimit /\ EachWithinLimit
  /\ WholeSoFar /\ NothingSkipped /\ ListedIsWhole
=============================================================================
