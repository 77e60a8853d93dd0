---------------------------- MODULE FileRecorder ----------------------------
(***************************************************************************)
(* attestation/file/file.go, and the material and product attestors that   *)
(* call it before and after the command: RecordArtifacts walks a directory,*)
(* follows symbolic links by calling itself on their targets, and keeps    *)
(* what shouldRecord lets through.  The stack of calls is explicit, one    *)
(* step per path that filepath.Walk reports; the run types keep the        *)
(* command from running during a walk.                                     *)
(*                                                                         *)
(* A path is a sequence of names.  A digest is the set of pairs of a name  *)
(* and a content that it was computed from: one pair for a file, all of    *)
(* them for a directory.                                                   *)
(***************************************************************************)
EXTENDS Naturals, Sequences, SequencesExt, FiniteSets

CONSTANTS WalkOrder,     \* the paths there may be, in the order of a walk
          WorkingDir,    \* ctx.WorkingDir()
          Trees,         \* what the file system may hold at the start
          Content,       \* what a file may hold
          Hashes,        \* ctx.Hashes()
          DirHashGlobs,  \* sets of relative paths that a glob matches
          Names,         \* the names by which the command opens files
          Targets,       \* where it points links
          MaxLinks,      \* how many links EvalSymlinks follows, 255
          MaxWrites      \* how often it does so, before and after it ends

ASSUME BoundsAssumption == MaxLinks \in Nat /\ MaxWrites \in Nat

\* A file is hashed, and never the way a directory is.
ASSUME HashesAssumption == Hashes # {} /\ "dirHash" \notin Hashes

\* An element of a path is no separator.
Element == STRING \ {"/"}

ASSUME TargetsAssumption == Targets \subseteq Seq(Element)

\* A walk reports each path once and after the directories it is in.
ASSUME WalkOrderAssumption ==
  /\ WorkingDir \in Seq(Element)
  /\ WalkOrder \in Seq(Seq(Element))
  /\ \A i, j \in DOMAIN WalkOrder :
       /\ IsStrictPrefix(WalkOrder[i], WalkOrder[j]) => i < j
       /\ WalkOrder[i] = WalkOrder[j] => i = j

VARIABLES tree,       \* the file system
          snapshot,   \* what it was when each of the two walks began
          dirHashGlob,\* ctx.DirHashGlob()
          tracing,    \* the command runs with tracing enabled
          opened,     \* the keys of OpenedFiles of its processes
          stage,      \* the run type, or how it ended
          frames,     \* the calls of RecordArtifacts in progress
          visited,    \* visitedSymlinks
          materials,  \* ctx.Materials()
          products,   \* ctx.Products()
          writes      \* how often it changed something

recVars == <<tree, snapshot, dirHashGlob, tracing, opened, stage, frames, visited,
             materials, products, writes>>

-----------------------------------------------------------------------------
(* The file system, external                                               *)

Path == ToSet(WalkOrder)

Node(k, c, t) == [kind |-> k, content |-> c, target |-> t]
File(c) == Node("file", c, <<>>)
Link(t) == Node("link", "", t)
Dir == Node("dir", "", <<>>)
Special == Node("special", "", <<>>)  \* a device, a pipe, a socket
Absent == Node("absent", "", <<>>)

At(t, p) == IF p \in DOMAIN t THEN t[p] ELSE Absent

\* Something can only be in a directory.
IsTree(t) ==
  /\ DOMAIN t = Path
  /\ \A p \in Path : t[p] \in {Dir, Special, Absent, File(t[p].content), Link(t[p].target)}
  /\ \A p \in Path : t[p].target \in Seq(Element)
  /\ \A p, q \in Path : IsStrictPrefix(p, q) /\ t[q] # Absent => t[p] = Dir

ASSUME TreesAssumption == \A t \in Trees : IsTree(t)

\* The links on the way to p, by position.
LinksOn(t, p) == {i \in 1..Len(p) : At(t, SubSeq(p, 1, i)).kind = "link"}

\* filepath.EvalSymlinks: replace the first link on the way until there is none,
\* or too many have been replaced.
Follow(t, p) ==
  LET Replace(q) ==
        LET i == Min(LinksOn(t, q))
        IN  At(t, SubSeq(q, 1, i)).target \o SubSeq(q, i + 1, Len(q))
      hop[n \in 0..MaxLinks] ==
        IF n = 0 THEN p
        ELSE IF LinksOn(t, hop[n - 1]) = {} THEN hop[n - 1] ELSE Replace(hop[n - 1])
  IN  hop[MaxLinks]

\* EvalSymlinks does not give up.
CanFollow(t, p) == LinksOn(t, Follow(t, p)) = {}

Lookup(t, p) == At(t, Follow(t, p))

Rel(base, p) == SubSeq(p, Len(base) + 1, Len(p))

\* Mutant of Join: an artifact keeps the path it has below the link's target.
JoinNothing(rel, key) ==
  IF key # <<>> /\ Last(key) = "/" THEN Front(key) ELSE key

\* filepath.Join cleans what it joins: a directory's trailing slash is lost.
Join(rel, key) ==
  rel \o (IF key # <<>> /\ Last(key) = "/" THEN Front(key) ELSE key)

\* filepath.Walk does not follow links.  What it reports, by position in its order.
Walk(base) ==
  {i \in DOMAIN WalkOrder : /\ IsPrefix(base, WalkOrder[i])
                            /\ tree[WalkOrder[i]] # Absent}

-----------------------------------------------------------------------------
(* cryptoutil.DigestSet                                                    *)

CalculateDigestSet(c) == [h \in Hashes |-> {<<<<>>, c>>}]

\* dirhash.HashDir: the files below the directory, links to files included.
FilesBelow(p) == {q \in Path : IsStrictPrefix(p, q)
                                 /\ tree[q].kind \notin {"absent", "dir"}}

\* DirhHashSha256 cannot open a link that leads nowhere.
DirIsHashable(p) ==
  \A q \in FilesBelow(p) : Lookup(tree, q).kind \in {"file", "dir"}

CalculateDigestSetFromDir(p) ==
  [h \in {"dirHash"} |->
     {<<Rel(p, q), Lookup(tree, q).content>> :
        q \in {q \in FilesBelow(p) : Lookup(tree, q).kind = "file"}}]

\* Equal: the hash functions both have in common agree, and there is one.
Equal(d, e) ==
  LET common == DOMAIN d \cap DOMAIN e
  IN  common # {} /\ \A h \in common : d[h] = e[h]

-----------------------------------------------------------------------------
(* RecordArtifacts                                                         *)

Nothing == [p \in {} |-> {}]
Put(m, k, d) == [x \in DOMAIN m \cup {k} |-> IF x = k THEN d ELSE m[x]]

\* The arguments of material.Attest and product.Attest.
BaseArtifacts == IF stage = "material" THEN Nothing ELSE materials
ProcessWasTraced == stage = "product" /\ tracing

\* Mutant of shouldRecord: a path that was there before is never recorded.
ShouldRecordIfNew(path, artifact) ==
  /\ ProcessWasTraced => path \in opened
  /\ path \notin DOMAIN BaseArtifacts

shouldRecord(path, artifact) ==
  /\ ProcessWasTraced => path \in opened
  /\ ~ (path \in DOMAIN BaseArtifacts /\ Equal(artifact, BaseArtifacts[path]))

Frame(base, link) ==
  [base |-> base, link |-> link, todo |-> Walk(base), artifacts |-> Nothing]

Top == frames[Len(frames)]
Current == WalkOrder[Min(Top.todo)]
RelPath == Rel(Top.base, Current)

Walking(kinds) ==
  /\ frames # <<>>
  /\ Top.todo # {}
  /\ tree[Current].kind \in kinds

SetTop(f) == frames' = [frames EXCEPT ![Len(frames)] = f]
Done(f) == [f EXCEPT !.todo = @ \ {Min(@)}]
Fails == stage' = "error" /\ frames' = <<>>

RecordUnchanged == UNCHANGED <<tree, snapshot, dirHashGlob, tracing, opened, writes>>

\* Attest of the material or the product attestor begins.
StartRecording ==
  /\ stage \in {"material", "product"}
  /\ frames = <<>>
  /\ frames' = <<Frame(WorkingDir, <<>>)>>
  /\ visited' = {}
  /\ snapshot' = [snapshot EXCEPT ![stage] = tree]
  /\ UNCHANGED <<tree, dirHashGlob, tracing, opened, stage, materials, products, writes>>

\* product.Attest: glob.Compile turns down the include or the exclude glob.
BadGlob ==
  /\ stage = "product"
  /\ frames = <<>>
  /\ Fails
  /\ UNCHANGED <<visited, materials, products>>
  /\ RecordUnchanged

\* A directory: hashed as a whole and skipped, or walked into.
VisitDir ==
  /\ Walking({"dir"})
  /\ IF RelPath \notin dirHashGlob
       THEN SetTop(Done(Top)) /\ UNCHANGED stage
       ELSE IF ~ DirIsHashable(Current) THEN Fails
       ELSE /\ SetTop([Top EXCEPT
                 !.todo = {i \in Top.todo : ~ IsPrefix(Current, WalkOrder[i])},
                 !.artifacts = Put(Top.artifacts, Append(RelPath, "/"),
                                   CalculateDigestSetFromDir(Current))])
            /\ UNCHANGED stage
  /\ UNCHANGED <<visited, materials, products>>
  /\ RecordUnchanged

\* Mutant of Enter: the target is not remembered.
EnterForgets(linkedPath) ==
  /\ frames' = Append([frames EXCEPT ![Len(frames)] = Done(Top)],
                      Frame(linkedPath, RelPath))
  /\ UNCHANGED visited

\* RecordArtifacts calls itself on the target of a link.
Enter(linkedPath) ==
  /\ frames' = Append([frames EXCEPT ![Len(frames)] = Done(Top)],
                      Frame(linkedPath, RelPath))
  /\ visited' = visited \cup {linkedPath}

\* EvalSymlinks fails with ENOTDIR: there is a file where a directory should be.
BehindFile(t, p) ==
  \E i \in 0..Len(p) - 1 : At(t, SubSeq(p, 1, i)).kind \in {"file", "special"}

\* A link: a broken one and one to a target seen before are skipped.  The walk
\* ends when EvalSymlinks gives up, or fails for a reason other than that the
\* target does not exist.
VisitLink ==
  /\ Walking({"link"})
  /\ LET linkedPath == Follow(tree, Current)
     IN  IF ~ CanFollow(tree, Current) \/ BehindFile(tree, linkedPath)
           THEN Fails /\ UNCHANGED visited
         ELSE IF At(tree, linkedPath) = Absent \/ linkedPath \in visited
           THEN SetTop(Done(Top)) /\ UNCHANGED <<stage, visited>>
         ELSE Enter(linkedPath) /\ UNCHANGED stage
  /\ UNCHANGED <<materials, products>>
  /\ RecordUnchanged

\* A device, a pipe or a socket is turned down.
isHashableFile(node) == node.kind # "special"

\* A file; the walk ends when it cannot be hashed.
VisitFile ==
  /\ Walking({"file", "special"})
  /\ LET artifact == CalculateDigestSet(tree[Current].content)
     IN  IF ~ isHashableFile(tree[Current]) THEN Fails
         ELSE /\ SetTop([Done(Top) EXCEPT !.artifacts =
                   IF shouldRecord(RelPath, artifact) THEN Put(@, RelPath, artifact)
                                                      ELSE @])
              /\ UNCHANGED stage
  /\ UNCHANGED <<visited, materials, products>>
  /\ RecordUnchanged

\* The walk of a link's target is over: its artifacts, under the link's path.
LeaveLink ==
  /\ Len(frames) > 1
  /\ Top.todo = {}
  /\ LET parent == frames[Len(frames) - 1]
         kept == {k \in DOMAIN Top.artifacts :
                    shouldRecord(Join(Top.link, k), Top.artifacts[k])}
         joined == [p \in {Join(Top.link, k) : k \in kept} |->
                      Top.artifacts[CHOOSE k \in kept : Join(Top.link, k) = p]]
     IN  frames' = Append(SubSeq(frames, 1, Len(frames) - 2),
           [parent EXCEPT !.artifacts =
              [p \in DOMAIN @ \cup DOMAIN joined |->
                 IF p \in DOMAIN joined THEN joined[p] ELSE @[p]]])
  /\ UNCHANGED <<stage, visited, materials, products>>
  /\ RecordUnchanged

\* RecordArtifacts returns to Attest, which publishes what it was given.
Recorded ==
  /\ Len(frames) = 1
  /\ Top.todo = {}
  /\ frames' = <<>>
  /\ IF stage = "material"
       THEN stage' = "command" /\ materials' = Top.artifacts /\ UNCHANGED products
       ELSE stage' = "post" /\ products' = Top.artifacts /\ UNCHANGED materials
  /\ UNCHANGED visited
  /\ RecordUnchanged

RecordArtifacts ==
  VisitDir \/ VisitLink \/ VisitFile \/ LeaveLink \/ Recorded

-----------------------------------------------------------------------------
(* The command, external                                                   *)

Changes == writes < MaxWrites /\ writes' = writes + 1

\* openat names a file as the process did, relative to the working directory
\* or from the root.
OpenedAs(name) == {Rel(WorkingDir, name), name}

\* The command, or a process it left behind, writes or removes a file.
Change(name, node) ==
  LET p == Follow(tree, name)
  IN  /\ stage \in {"command", "post"}
      /\ frames = <<>>
      /\ Changes
      /\ p \in Path
      /\ At(tree, Front(p)).kind = "dir"
      /\ tree[p].kind \in {"file", "absent"}
      /\ tree[p] # node
      /\ tree' = [tree EXCEPT ![p] = node]
      /\ IF stage = "command" /\ tracing
           THEN \E n \in OpenedAs(name) : opened' = opened \cup {n}
           ELSE UNCHANGED opened
      /\ UNCHANGED <<snapshot, dirHashGlob, tracing, stage, frames, visited,
                     materials, products>>

WriteFile == \E name \in Names, c \in Content : Change(name, File(c))
RemoveFile == \E name \in Names : Change(name, Absent)

\* The command points a link elsewhere.
Relink ==
  /\ stage = "command"
  /\ Changes
  /\ \E p \in Path, t \in Targets :
       /\ tree[p].kind = "link"
       /\ tree[p].target # t
       /\ tree' = [tree EXCEPT ![p] = Link(t)]
  /\ UNCHANGED <<snapshot, dirHashGlob, tracing, opened, stage, frames, visited,
                 materials, products>>

CommandEnds ==
  /\ stage = "command"
  /\ stage' = "product"
  /\ writes' = 0
  /\ UNCHANGED <<tree, snapshot, dirHashGlob, tracing, opened, frames, visited,
                 materials, products>>

-----------------------------------------------------------------------------

RecorderInit ==
  /\ tree \in Trees
  /\ snapshot = [s \in {"material", "product"} |-> tree]
  /\ dirHashGlob \in DirHashGlobs
  /\ tracing \in BOOLEAN
  /\ opened = {}
  /\ stage = "material"
  /\ frames = <<>>
  /\ visited = {}
  /\ materials = Nothing
  /\ products = Nothing
  /\ writes = 0

RecorderStep == StartRecording \/ BadGlob \/ RecordArtifacts \/ CommandEnds

RecorderNext == RecorderStep \/ WriteFile \/ RemoveFile \/ Relink

-----------------------------------------------------------------------------
(* Properties                                                              *)

\* The file that name p led to when the walk of stage s began.
FileAt(s, p) == Lookup(snapshot[s], p)

InHashedDir(p) ==
  \E i \in 0..Len(p) : SubSeq(p, 1, i) \in dirHashGlob

\* What the name p, relative to the working directory, leads to is a file that
\* is new or is not what it was before the command, and the command was not
\* traced or opened it under that name.
IsChanged(p) ==
  LET q == WorkingDir \o p
  IN  /\ FileAt("product", q).kind = "file"
      /\ FileAt("material", q) # FileAt("product", q)
      /\ tracing => p \in opened

HasDigestOf(p) ==
  products[p] = CalculateDigestSet(FileAt("product", WorkingDir \o p).content)

\* product.Attest reports the changes of the command and nothing else: a file
\* of the working directory, outside hashed directories and not behind a link,
\* is a product, with the digest it had, exactly when it is new or differs
\* from what it was before the command, and was opened if that was traced.
ProductsAreTheChanges ==
  stage = "post" =>
    \A q \in Path :
      LET p == Rel(WorkingDir, q)
      IN  /\ IsStrictPrefix(WorkingDir, q)
          /\ snapshot["product"][q].kind = "file"
          /\ ~ InHashedDir(p)
          => /\ p \in DOMAIN products <=> IsChanged(p)
             /\ p \in DOMAIN products => HasDigestOf(p)

\* Whatever path a product has, a link's included, it led to a file with that
\* digest when the walk began (file.go, joinedPath), or is a directory.  The
\* recorder follows the links of a path one call at a time, so that there may
\* be more of them on the path than can be followed at once.
ProductsAreThere ==
  stage = "post" =>
    \A p \in DOMAIN products :
      \/ DOMAIN products[p] = {"dirHash"}
      \/ ~ CanFollow(snapshot["product"], WorkingDir \o p)
      \/ FileAt("product", WorkingDir \o p).kind = "file" /\ HasDigestOf(p)

\* The target of a link is walked once, so that links in a circle do not keep
\* the recorder busy (file.go, "to prevent infinite loops").
NoTargetIsWalkedTwice ==
  \A i, j \in 2..Len(frames) : i # j => frames[i].base # frames[j].base

\* Without tracing, a changed file behind the only link there is, is a product
\* under the link's path (file.go, "all artifacts in the symlink should be recorded
\* relative to our basepath").
LinkedChangesAreProducts ==
  stage = "post" /\ ~ tracing =>
    \A q \in Names :
      LET p == Rel(WorkingDir, q)
          links == {x \in Path : snapshot["product"][x].kind = "link"}
      IN  /\ \E x \in links : links = {x} /\ IsStrictPrefix(x, q)
          /\ ~ InHashedDir(p)
          /\ IsChanged(p)
          => p \in DOMAIN products
=============================================================================
