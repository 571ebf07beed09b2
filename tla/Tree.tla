---------------------------------- MODULE Tree ----------------------------------
(***************************************************************************)
(* hw1: dirTree, with its recursion as a stack of directories half read.   *)
(* A directory is a function from the names in it; a file is its size.  A  *)
(* printed line is its padding, its mark, a name and what is said of size. *)
(***************************************************************************)
EXTENDS Naturals, Sequences, FiniteSets, SequencesExt

CONSTANTS FileName   \* names, as numbers in the order that ReadDir sorts them

DirsOf(nodes) == UNION {[names -> nodes] : names \in SUBSET FileName}
File == [dir : {FALSE}, size : {0, 7}, kids : {<<>>}]
Directory(kids) == [dir |-> TRUE, size |-> 1, kids |-> kids]
Flat == File \cup {Directory(<<>>)}
Level1 == File \cup {Directory(d) : d \in DirsOf(Flat)}
Level2 == File \cup {Directory(d) : d \in DirsOf(Level1)}

(* Two levels below the root, and three in a directory that is alone. *)
Trees == DirsOf(Level1) \cup UNION {[{n} -> Level2] : n \in FileName}

VARIABLES tree, printFiles,   \* the arguments
          calls,              \* the stack: dirTree's directory, then printTree's
          out, err            \* lines so far; whether an error was returned
treeVars == <<tree, printFiles, calls, out, err>>

(* readDir: sorted, and directories only unless files are asked for.       *)
readDir(kids) == SetToSortSeq({n \in DOMAIN kids : printFiles \/ kids[n].dir}, <)

EverLast(kids, n) == \A m \in DOMAIN kids : m <= n
IsLast(kids, n) == n = Last(readDir(kids))

TreeInit ==
  /\ tree \in Trees /\ printFiles \in BOOLEAN
  /\ calls = <<[kids |-> tree, rest |-> readDir(tree), padding |-> <<>>]>>
  /\ out = <<>> /\ err = FALSE

Top == calls[Len(calls)]
Fi == Top.kids[Head(Top.rest)]

Size(node) ==
  IF printFiles /\ ~node.dir THEN (IF node.size > 0 THEN "(b)" ELSE "(empty)") ELSE "none"
Printed(padding, kids, n) ==
  [padding |-> padding, mark |-> IF IsLast(kids, n) THEN "last" ELSE "more", name |-> n,
   size |-> Size(kids[n])]

NewPadding(last) == Append(Top.padding, IF last THEN "tab" ELSE "bar")

(* A line of printTree; a directory's own come next.                       *)
PrintTree ==
  /\ ~err /\ calls # <<>> /\ Top.rest # <<>>
  /\ LET n == Head(Top.rest)
         rests == [calls EXCEPT ![Len(calls)].rest = Tail(@)]
     IN /\ out' = Append(out, Printed(Top.padding, Top.kids, n))
        /\ calls' = IF Fi.dir
                    THEN Append(rests, [kids |-> Fi.kids, rest |-> readDir(Fi.kids),
                                        padding |-> NewPadding(IsLast(Top.kids, n))])
                    ELSE rests
  /\ UNCHANGED <<tree, printFiles, err>>

Return ==
  /\ ~err /\ calls # <<>> /\ Top.rest = <<>>
  /\ calls' = Front(calls)
  /\ UNCHANGED <<tree, printFiles, out, err>>

(* Writing the line fails, or reading the directory after it. *)
GivesUp == err' = TRUE /\ UNCHANGED calls
Fails ==
  /\ ~err /\ calls # <<>> /\ Top.rest # <<>>
  /\ \/ UNCHANGED out
     \/ Fi.dir /\ out' = Append(out, Printed(Top.padding, Top.kids, Head(Top.rest)))
  /\ GivesUp
  /\ UNCHANGED <<tree, printFiles>>

TreeNext == PrintTree \/ Return \/ Fails
TreeSpec == TreeInit /\ [][TreeNext]_treeVars

(***************************************************************************)
(* The picture of a tree, without the recursion: the paths in the order of *)
(* a dictionary, each behind what its ancestors leave open.                *)
(***************************************************************************)
KidsAt(path) == FoldLeft(LAMBDA kids, n : kids[n].kids, tree, path)
In(path, n) == n \in DOMAIN KidsAt(path) /\ (printFiles \/ KidsAt(path)[n].dir)
Paths ==
  LET one == {<<a>> : a \in {n \in FileName : In(<<>>, n)}}
      Below(paths) == UNION {{Append(p, n) : n \in {m \in FileName : In(p, m)}} : p \in paths}
  IN one \cup Below(one) \cup Below(Below(one)) \cup Below(Below(Below(one)))
Before(p, q) ==
  \/ IsStrictPrefix(p, q)
  \/ \E k \in DOMAIN p \cap DOMAIN q : p[k] < q[k] /\ \A j \in 1..k - 1 : p[j] = q[j]
LastChild(p) == \A n \in FileName : In(Front(p), n) => n <= Last(p)
Drawn(p) ==
  [padding |-> [k \in 1..Len(p) - 1 |-> IF LastChild(SubSeq(p, 1, k)) THEN "tab" ELSE "bar"],
   mark |-> IF LastChild(p) THEN "last" ELSE "more", name |-> Last(p),
   size |-> Size(KidsAt(Front(p))[Last(p)])]
Rank(p) == 1 + Cardinality({q \in Paths : Before(q, p)})

(* The line of a path is printed at its place, and none is left out unless *)
(* an error is returned.                                                   *)
DrawsThePicture ==
  calls = <<>> \/ err =>
    /\ \A p \in Paths : Rank(p) <= Len(out) => out[Rank(p)] = Drawn(p)
    /\ Len(out) <= Cardinality(Paths)
    /\ ~err => Len(out) = Cardinality(Paths)
=============================================================================
