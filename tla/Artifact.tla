------------------------------ MODULE Artifact ------------------------------
(***************************************************************************)
(* The artifact package: a tree of versioned artifacts (tree.json), the    *)
(* user's directory of them (the root), a cache directory and a source     *)
(* store of blobs by content hash, and the commands over them -- pull,     *)
(* push, rm, clean and status -- run one at a time by processes that may   *)
(* be ended between any two of their effects and whose source store may    *)
(* fail.                                                                   *)
(*                                                                         *)
(* A directory, the user's and the tree's alike, is a function from paths  *)
(* to Dir or to a content; a content stands for its hash (FNV collisions   *)
(* are left out), so a tree node and a file are equal when their hashes    *)
(* are.  Blobs are written to a temporary file and renamed: one step.      *)
(***************************************************************************)
EXTENDS Naturals, Sequences, Functions

Seqs == INSTANCE SequencesExt

CONSTANTS
    Order,      \* every path, in the order a walk of the root visits them
    Contents,   \* the contents of files
    Large,      \* those over the pull size limit
    Ignored,    \* paths of files with a name on the ignore list
    MaxEdits,   \* bound on the user's edits of the root
    MaxFailures \* bound on failures of the source store and ends of processes

ASSUME ArtifactAssumption ==
    /\ Order \in Seq(Seq(STRING) \ {<<>>})
    /\ "dir" \notin Contents /\ Large \subseteq Contents
    /\ MaxEdits \in Nat /\ MaxFailures \in Nat

Paths == Range(Order)

Dir == "dir"

VARIABLES
    tree,       \* the process's config.tree
    file,       \* tree.json: a tree, or Broken once truncated
    root,       \* the user visible directory
    cache,      \* hashes in the cache directory
    source,     \* hashes in the source store
    op,         \* the command that runs
    edits, failures

artifactVars == <<tree, file, root, cache, source, op, edits, failures>>

Nothing == [p \in {} |-> Dir]

\* What LoadConfigFromFile cannot decode: an empty tree.json.
Broken == [p \in {<<>>} |-> "broken"]

\* cache: what GlobalCache gave the process; todo: the paths still to visit;
\* modified, unstored: the Status so far.
NoOp ==
    [kind |-> "none", cache |-> "none", todo |-> <<>>, all |-> FALSE,
     path |-> <<>>, pc |-> "idle", result |-> "none", modified |-> {},
     unstored |-> {}]

ArtifactInit ==
    /\ tree = Nothing /\ file = Nothing /\ root = Nothing
    /\ cache = {} /\ source = {}
    /\ op = NoOp /\ edits = 0 /\ failures = 0

Failure ==
    /\ failures < MaxFailures
    /\ failures' = failures + 1

-----------------------------------------------------------------------------
(* Trees. *)

Under(p, q) == Seqs!IsPrefix(p, q)

Parents(p) == {q \in Paths : Seqs!IsStrictPrefix(q, p)}

Files(d) == {p \in DOMAIN d : d[p] # Dir}

Without(d, p) == [q \in {q \in DOMAIN d : ~Under(p, q)} |-> d[q]]

\* The path's parents become directories, whatever they were.
WithParents(d, p) ==
    [q \in DOMAIN d \cup Parents(p) |-> IF q \in Parents(p) THEN Dir ELSE d[q]]

\* storeHash: what the node replaces is gone with everything under it.
StoreHash(d, hash, p) ==
    LET base == WithParents(Without(d, p), p)
    IN  [q \in DOMAIN base \cup {p} |-> IF q = p THEN hash ELSE base[q]]

\* lookup, with "/" (here <<>>) the whole tree.
Lookup(d, p) == p = <<>> \/ p \in DOMAIN d

\* removePath; "/" names nothing.
RemovePath(d, p) == IF p = <<>> THEN d ELSE Without(d, p)

WellFormed(d) == \A p \in DOMAIN d : \A q \in Parents(p) : q \in DOMAIN d /\ d[q] = Dir

-----------------------------------------------------------------------------
(* The user, between commands. *)

WriteFile(p, c) ==
    /\ op.pc = "idle" /\ edits < MaxEdits
    /\ root' = StoreHash(root, c, p)
    /\ edits' = edits + 1
    /\ UNCHANGED <<tree, file, cache, source, op, failures>>

RemoveAll(p) ==
    /\ op.pc = "idle" /\ edits < MaxEdits
    /\ p \in DOMAIN root
    /\ root' = Without(root, p)
    /\ edits' = edits + 1
    /\ UNCHANGED <<tree, file, cache, source, op, failures>>

\* The next process is another user's, whose checkout has the same tree.json
\* and source store and as yet neither root nor cache.
CheckOut ==
    /\ op.cache = "none" /\ edits < MaxEdits
    /\ root' = Nothing /\ cache' = {}
    /\ edits' = edits + 1
    /\ UNCHANGED <<tree, file, source, op, failures>>

-----------------------------------------------------------------------------
(* Processes and their commands. *)

\* GlobalCache: LoadConfig finds a configuration or none (a noop cache), and a
\* tree.json that does not decode is an error.
GlobalCache(found) ==
    /\ op.cache = "none"
    /\ file # Broken
    /\ op' = [op EXCEPT !.cache = IF found THEN "cached" ELSE "noop"]
    /\ tree' = IF found THEN file ELSE Nothing
    /\ UNCHANGED <<file, root, cache, source, edits, failures>>

\* The process ends, at a point of its choosing or not: what it had in memory
\* is lost.
ProcessEnds ==
    /\ op.cache # "none"
    /\ IF op.pc = "idle" THEN UNCHANGED failures ELSE Failure
    /\ op' = NoOp
    /\ tree' = Nothing
    /\ UNCHANGED <<file, root, cache, source, edits>>

Begin(kind, pc, todo, path, all) ==
    op' = [op EXCEPT !.kind = kind, !.pc = pc, !.todo = todo, !.path = path,
                     !.all = all, !.result = "none"]

Finish(result) == [op EXCEPT !.pc = "done", !.todo = <<>>, !.result = result]

\* The command returns to its caller; another may follow in the process.
Return ==
    /\ op.pc = "done"
    /\ op' = [NoOp EXCEPT !.cache = op.cache]
    /\ UNCHANGED <<tree, file, root, cache, source, edits, failures>>

Idle == op.cache = "cached" /\ op.pc = "idle"

\* Every command of the noop cache: pull finds nothing, the rest do nothing.
NoopCommand ==
    /\ op.cache = "noop" /\ op.pc = "idle"
    /\ op' = [op EXCEPT !.pc = "done", !.result = "ok", !.kind = "noop"]
    /\ UNCHANGED <<tree, file, root, cache, source, edits, failures>>

\* Store of a blob by a program that uses the cache: the source first.
Store(c) ==
    /\ Idle
    /\ \/ /\ source' = source \cup {c} /\ cache' = cache \cup {c}
          /\ op' = Finish("ok") /\ UNCHANGED failures
       \/ /\ source' \in {source, source \cup {c}} /\ UNCHANGED cache
          /\ op' = Finish("error") /\ Failure
    /\ UNCHANGED <<tree, file, root, edits>>

\* Ensure, the pull command: the artifacts under the path, in the order of
\* the maps.
Ensure(p, all) ==
    /\ Idle
    /\ IF Lookup(tree, p)
       THEN \E todo \in Seqs!SetToSeqs({q \in Files(tree) : Under(p, q)}) :
              Begin("pull", "ensure", todo, p, all)
       ELSE Begin("pull", "done", <<>>, p, all)
    /\ UNCHANGED <<tree, file, root, cache, source, edits, failures>>

\* The user's path is free for the file: not a directory, and no parent of it
\* a file.
Placeable(p) ==
    /\ p \in DOMAIN root => root[p] # Dir
    /\ \A q \in Parents(p) : q \in DOMAIN root => root[q] = Dir

\* emplaceFile of a cached artifact: the same file is left alone, another one
\* removed before the new one is renamed into place.
EmplaceRemove(p) ==
    /\ p \in Files(root) /\ root[p] # tree[p]
    /\ root' = Without(root, p)
    /\ UNCHANGED op

EmplaceRename(p) ==
    /\ p \in DOMAIN root => root[p] = tree[p]
    /\ root' = StoreHash(root, tree[p], p)
    /\ op' = [op EXCEPT !.todo = Tail(@)]

\* Mutant of EnsureNode: a file that is there is left alone unread.
EnsureNodeKeeps ==
    LET p == Head(op.todo)
    IN  /\ op.pc = "ensure" /\ op.todo # <<>>
        /\ tree[p] \in cache
        /\ IF Placeable(p)
           THEN /\ root' = IF p \in DOMAIN root THEN root ELSE StoreHash(root, tree[p], p)
                /\ op' = [op EXCEPT !.todo = Tail(@)]
           ELSE op' = Finish("error") /\ UNCHANGED root
        /\ UNCHANGED <<tree, file, cache, source, edits, failures>>

EnsureNode ==
    LET p == Head(op.todo)
    IN  /\ op.pc = "ensure" /\ op.todo # <<>>
        /\ tree[p] \in cache
        /\ IF Placeable(p)
           THEN EmplaceRemove(p) \/ EmplaceRename(p)
           ELSE op' = Finish("error") /\ UNCHANGED root
        /\ UNCHANGED <<tree, file, cache, source, edits, failures>>

TooLarge(p) == ~op.all /\ tree[p] \in Large

\* Not cached: skipped when too large for a normal pull, or loaded from the
\* source and stored in the cache first.
EnsureLoad ==
    LET p == Head(op.todo)
    IN  /\ op.pc = "ensure" /\ op.todo # <<>>
        /\ tree[p] \notin cache
        /\ \/ /\ TooLarge(p)
              /\ op' = [op EXCEPT !.todo = Tail(@)]
              /\ UNCHANGED <<cache, failures>>
           \/ /\ ~TooLarge(p) /\ tree[p] \in source
              /\ cache' = cache \cup {tree[p]}
              /\ UNCHANGED <<op, failures>>
           \/ /\ ~TooLarge(p)
              /\ op' = Finish("error")
              /\ IF tree[p] \in source THEN Failure ELSE UNCHANGED failures
              /\ UNCHANGED cache
        /\ UNCHANGED <<tree, file, root, source, edits>>

EnsureDone ==
    /\ op.pc = "ensure" /\ op.todo = <<>>
    /\ op' = Finish("ok")
    /\ UNCHANGED <<tree, file, root, cache, source, edits, failures>>

\* The paths of a directory in the order a walk visits them.
Before(p, q) == \E i, j \in DOMAIN Order : i < j /\ Order[i] = p /\ Order[j] = q

Walks(d) ==
    {s \in Seqs!SetToSeqs(DOMAIN d) : \A i, j \in DOMAIN s : i < j => Before(s[i], s[j])}

\* WriteThroughUser (push) and Status both walk the root.
Walk(kind) ==
    /\ Idle
    /\ \E todo \in Walks(root) : Begin(kind, "walk", todo, <<>>, FALSE)
    /\ UNCHANGED <<tree, file, root, cache, source, edits, failures>>

Visited == [op EXCEPT !.todo = Tail(@)]

\* A directory makes the tree's node a directory, also when only asked for the
\* status.
WalkDir ==
    LET p == Head(op.todo)
    IN  /\ op.pc = "walk" /\ op.todo # <<>>
        /\ root[p] = Dir
        /\ tree' = IF p \in DOMAIN tree /\ tree[p] = Dir THEN tree
                   ELSE StoreHash(tree, Dir, p)
        /\ op' = Visited
        /\ UNCHANGED <<file, root, cache, source, edits, failures>>

\* Nothing to do for a file that is ignored or in the tree as it is.
Recorded(p) ==
    p \in Ignored \/ (p \in Files(tree) /\ tree[p] = root[p])

\* Mutant of WalkFile: what is in the tree already is not reported.
WalkFileNewOnly ==
    LET p == Head(op.todo)
    IN  /\ op.pc = "walk" /\ op.todo # <<>>
        /\ root[p] # Dir
        /\ Recorded(p) \/ op.kind = "status"
        /\ op' = [Visited EXCEPT
             !.unstored = IF Recorded(p) \/ p \in DOMAIN tree THEN @ ELSE @ \cup {p}]
        /\ UNCHANGED <<tree, file, root, cache, source, edits, failures>>

\* The rest is reported by status.
WalkFile ==
    LET p == Head(op.todo)
    IN  /\ op.pc = "walk" /\ op.todo # <<>>
        /\ root[p] # Dir
        /\ \/ Recorded(p) /\ op' = Visited
           \/ /\ ~Recorded(p) /\ op.kind = "status"
              /\ op' = IF p \in DOMAIN tree
                       THEN [Visited EXCEPT !.modified = @ \cup {p}]
                       ELSE [Visited EXCEPT !.unstored = @ \cup {p}]
        /\ UNCHANGED <<tree, file, root, cache, source, edits, failures>>

\* Mutant of WriteThrough: the cache and the tree come before the source.
WriteThroughCacheFirst ==
    LET p == Head(op.todo)
    IN  /\ op.pc = "walk" /\ op.todo # <<>> /\ op.kind = "push"
        /\ root[p] # Dir /\ ~Recorded(p)
        /\ IF root[p] \notin cache
           THEN cache' = cache \cup {root[p]} /\ UNCHANGED <<source, tree, op>>
           ELSE /\ source' = source \cup {root[p]}
                /\ tree' = StoreHash(tree, root[p], p)
                /\ op' = Visited
                /\ UNCHANGED cache
        /\ UNCHANGED <<file, root, edits, failures>>

\* store: the source first, and only then the cache and the tree.
WriteThrough ==
    LET p == Head(op.todo)
    IN  /\ op.pc = "walk" /\ op.todo # <<>> /\ op.kind = "push"
        /\ root[p] # Dir /\ ~Recorded(p)
        /\ IF root[p] \notin source
           THEN source' = source \cup {root[p]} /\ UNCHANGED <<cache, tree, op>>
           ELSE /\ cache' = cache \cup {root[p]}
                /\ tree' = StoreHash(tree, root[p], p)
                /\ op' = Visited
                /\ UNCHANGED source
        /\ UNCHANGED <<file, root, edits, failures>>

\* The source store's Store fails: the walk is given up, the tree keeps what
\* was recorded so far and is not committed.
WriteThroughFails ==
    LET p == Head(op.todo)
    IN  /\ op.pc = "walk" /\ op.todo # <<>> /\ op.kind = "push"
        /\ root[p] # Dir /\ ~Recorded(p)
        /\ Failure
        /\ op' = Finish("error")
        /\ UNCHANGED <<tree, file, root, cache, source, edits>>

WalkDone ==
    /\ op.pc = "walk" /\ op.todo = <<>>
    /\ op' = IF op.kind = "push" THEN [op EXCEPT !.pc = "commit"] ELSE Finish("ok")
    /\ UNCHANGED <<tree, file, root, cache, source, edits, failures>>

\* Remove, the rm command: from the tree alone (its comment, cache.go:67, says
\* "from the tree and root").  The user's file goes with the next clean.
Remove(p) ==
    /\ Idle
    /\ tree' = RemovePath(tree, p)
    /\ Begin("remove", "commit", <<>>, p, FALSE)
    /\ UNCHANGED <<file, root, cache, source, edits, failures>>

\* commitFn truncates tree.json before it encodes the tree into it.
CommitTruncate ==
    /\ op.pc = "commit"
    /\ file' = Broken
    /\ op' = [op EXCEPT !.pc = "encode"]
    /\ UNCHANGED <<tree, root, cache, source, edits, failures>>

CommitEncode ==
    /\ op.pc = "encode"
    /\ file' = tree
    /\ op' = Finish("ok")
    /\ UNCHANGED <<tree, root, cache, source, edits, failures>>

Clean ==
    /\ Idle
    /\ \E todo \in Walks(root) : Begin("clean", "clean", todo, <<>>, FALSE)
    /\ UNCHANGED <<tree, file, root, cache, source, edits, failures>>

\* Mutant of CleanEntry: directories of the tree are not looked into.
CleanEntryTopOnly ==
    LET p == Head(op.todo)
    IN  /\ op.pc = "clean" /\ op.todo # <<>>
        /\ op' = Visited
        /\ root' = IF p \in DOMAIN tree \/ Parents(p) \cap DOMAIN tree # {}
                   THEN root ELSE Without(root, p)
        /\ UNCHANGED <<tree, file, cache, source, edits, failures>>

\* cleanTree at one entry: gone already with a directory; unknown to the tree
\* and removed; a directory of the tree that is a file of the user, which
\* cannot be read; or kept, unread below what is a file in the tree.
CleanEntry ==
    LET p == Head(op.todo)
        below == \E q \in Parents(p) : q \in Files(tree)
    IN  /\ op.pc = "clean" /\ op.todo # <<>>
        /\ IF p \in DOMAIN root /\ p \in DOMAIN tree /\ tree[p] = Dir /\ root[p] # Dir
           THEN op' = Finish("error") /\ UNCHANGED root
           ELSE /\ op' = Visited
                /\ root' = IF p \in DOMAIN tree \/ below THEN root ELSE Without(root, p)
        /\ UNCHANGED <<tree, file, cache, source, edits, failures>>

CleanDone ==
    /\ op.pc = "clean" /\ op.todo = <<>>
    /\ op' = Finish("ok")
    /\ UNCHANGED <<tree, file, root, cache, source, edits, failures>>

-----------------------------------------------------------------------------
ArtifactNext ==
    \/ \E p \in Paths, c \in Contents : WriteFile(p, c)
    \/ \E p \in Paths : RemoveAll(p) \/ Remove(p)
    \/ \E found \in BOOLEAN : GlobalCache(found)
    \/ \E p \in Paths \cup {<<>>}, all \in BOOLEAN : Ensure(p, all)
    \/ \E c \in Contents : Store(c)
    \/ \E kind \in {"push", "status"} : Walk(kind)
    \/ EnsureNode \/ EnsureLoad \/ EnsureDone
    \/ WalkDir \/ WalkFile \/ WriteThrough \/ WriteThroughFails \/ WalkDone
    \/ CommitTruncate \/ CommitEncode
    \/ Clean \/ CleanEntry \/ CleanDone
    \/ NoopCommand \/ Return \/ ProcessEnds \/ CheckOut

ArtifactSpec == ArtifactInit /\ [][ArtifactNext]_artifactVars

-----------------------------------------------------------------------------
Directory(d) == DOMAIN d \subseteq Paths /\ Range(d) \subseteq Contents \cup {Dir}

\* The tree in memory and the one on disk are directories (every parent of a
\* node is one), and so is the user's root.
ArtifactTypeOK ==
    /\ Directory(tree) /\ WellFormed(tree)
    /\ Directory(root) /\ WellFormed(root)
    /\ file = Broken \/ (Directory(file) /\ WellFormed(file))
    /\ cache \subseteq Contents /\ source \subseteq Contents
    /\ Range(op.todo) \subseteq Paths
    /\ edits \in 0..MaxEdits /\ failures \in 0..MaxFailures

\* What tree.json names can be fetched by everyone who has it: each artifact of
\* a committed tree is in the source store, wherever a push or a process ended,
\* and nothing is only in the cache.
CommittedIsStored ==
    /\ file # Broken => \A p \in Files(file) : file[p] \in source
    /\ cache \subseteq source

\* A pull that succeeds leaves every artifact under its path as the tree has
\* it, in whatever state the user's directory was; only one over the limit and
\* not cached may be missing, and only when not all was asked for.
PullDelivers ==
    (op.pc = "done" /\ op.kind = "pull" /\ op.result = "ok") =>
        \A p \in Files(tree) : Under(op.path, p) =>
            \/ p \in DOMAIN root /\ root[p] = tree[p]
            \/ TooLarge(p) /\ tree[p] \notin cache

\* A push that succeeds has committed every file of the user's that is not
\* ignored, at its path and with its content.
PushRecords ==
    (op.pc = "done" /\ op.kind = "push" /\ op.result = "ok") =>
        /\ file = tree
        /\ \A p \in Files(root) \ Ignored : p \in DOMAIN file /\ file[p] = root[p]

\* What is committed is what the user has, and everyone can get it.
StoreInv == ArtifactTypeOK /\ CommittedIsStored /\ PushRecords

\* A clean that succeeds leaves nothing but what the tree has a node for, or
\* what lies under a directory where the tree has a file: the weaker statement
\* that cleanTree keeps, which passes over whatever has a node of its name and
\* looks neither at content nor, under a file's node, at what is there.
CleanLeavesTheTree ==
    (op.pc = "done" /\ op.kind = "clean" /\ op.result = "ok") =>
        \A p \in DOMAIN root :
            p \in DOMAIN tree \/ \E q \in Parents(p) : q \in Files(tree)

\* Does not hold (src/artifact/cache.go:72-73: "Clean makes sure that the user
\* visible assets reflect 1:1 the versioned assets in the tree"): every file a
\* clean leaves is one of the tree, with the tree's content.  A modified file
\* stays as it is, and so does a directory where the tree has a file.
CleanReflectsTheTree ==
    (op.pc = "done" /\ op.kind = "clean" /\ op.result = "ok") =>
        \A p \in Files(root) : p \in Files(tree) /\ root[p] = tree[p]

\* Status tells what a push would store: exactly the files whose content the
\* tree does not have at their path, modified when the tree has something else
\* there -- though the walk itself turns nodes of the tree into directories.
StatusForetells ==
    (op.pc = "done" /\ op.kind = "status") =>
        /\ op.modified \cup op.unstored =
             {p \in Files(root) \ Ignored : ~(p \in DOMAIN tree /\ tree[p] = root[p])}
        /\ op.modified \subseteq DOMAIN tree /\ op.unstored \cap DOMAIN tree = {}

=============================================================================
