----------------------------- MODULE DatumTree -----------------------------
(***************************************************************************)
(* A tree of data that an application builds, changes and walks: it        *)
(* rewinds the root, advances it recursively and between two steps of that *)
(* walk uses other operations on data anywhere in the tree.                *)
(***************************************************************************)
EXTENDS DatumOps

CONSTANTS Names,      \* the names data are given; NoName is one of them
          MaxData     \* bound: the data below the root

VARIABLES root,       \* the tree
          walk        \* [met |-> paths that Recurse has made current, ended |-> whether
                      \*  it has returned false], or Inert when there is no walk

treeVars == <<root, walk>>

TreeInit == root = NewDatum(NoName) /\ walk = Inert

Change(path, new) == root' = Put(root, path, new)
Room(n) == Cardinality(Paths(root)) + n <= MaxData + 1
EndsWalk == walk' = Inert

\* A cursor matters to a walk in the data that the walk is in.
Walks(path) == walk # Inert /\ IsPrefix(path, GetRecursive(root))
DisturbsCursor(path) == walk' = IF Walks(path) THEN Inert ELSE walk

\* operator[], Get and GetRecursive give an application access to any datum; for
\* a failed look-up they give the inert datum, which no operation changes.
AddNew(path, name) ==
    /\ Room(1) /\ ~At(root, path).inert
    /\ Change(path, Add(At(root, path), NewDatum(name))) /\ EndsWalk

AddInert(path) == Room(1) /\ Change(path, Add(At(root, path), InertDatum)) /\ EndsWalk

\* A datum is added to one that is not below it, or assigned to it.
AddCopy(path, other) ==
    LET r == At(root, other)
    IN  /\ Room(Cardinality(Paths(r))) /\ ~IsPrefix(other, path)
        /\ Change(path, Add(At(root, path), r)) /\ EndsWalk

Assign(path, other) ==
    LET r == At(root, other)
    IN  /\ ~IsPrefix(other, path) /\ ~IsPrefix(path, other)
        /\ Room(Cardinality(Paths(r))) /\ Change(path, Assigned(At(root, path), r)) /\ EndsWalk

EraseCurrent(path) == Change(path, Erase(At(root, path))) /\ EndsWalk
EraseByName(path, name) == Change(path, EraseNamed(At(root, path), name)) /\ EndsWalk
Clear(path) == ~At(root, path).inert /\ Change(path, Cleared(At(root, path))) /\ EndsWalk

SetName(path, name) == Change(path, NameSet(At(root, path), name)) /\ UNCHANGED walk
SelectName(path, name) == Change(path, Select(At(root, path), name)) /\ DisturbsCursor(path)
Next(path) == Change(path, Advance(At(root, path), FALSE).datum) /\ DisturbsCursor(path)

RewindBelow(path) ==
    path # <<>> /\ Change(path, Rewound(At(root, path))) /\ DisturbsCursor(path)

RecurseBelow(path) ==
    path # <<>> /\ Change(path, Advance(At(root, path), TRUE).datum) /\ DisturbsCursor(path)

Rewind == root' = Rewound(root) /\ walk' = [met |-> <<>>, ended |-> FALSE]

\* Recurse, and operator++, which returns the datum that has become current.
Recurse ==
    LET r == Advance(root, TRUE)
    IN  /\ walk # Inert
        /\ root' = r.datum
        /\ walk' = IF r.rv THEN [walk EXCEPT !.met = Append(@, GetRecursive(r.datum))]
                   ELSE [walk EXCEPT !.ended = TRUE]

TreeNext ==
    \/ \E path \in Paths(root) :
         \/ \E name \in Names :
              AddNew(path, name) \/ EraseByName(path, name) \/ SetName(path, name)
                \/ SelectName(path, name)
         \/ \E other \in Paths(root) : AddCopy(path, other) \/ Assign(path, other)
         \/ AddInert(path) \/ EraseCurrent(path) \/ Clear(path)
         \/ Next(path) \/ RewindBelow(path) \/ RecurseBelow(path)
    \/ Rewind \/ Recurse

TreeSpec == TreeInit /\ [][TreeNext]_treeVars

-----------------------------------------------------------------------------
\* Recurse, "advances iterator recursively to next datum" (cpDatum.h:168), meets
\* every datum below the root once, each before those below it, and returns false
\* after the last one only: whatever the cursors were left at by earlier uses, and
\* whatever is done meanwhile to the cursors of data the walk is not in.
WalkIsPreorder ==
    walk # Inert =>
        /\ IsPrefix(walk.met, Preorder(root))
        /\ walk.ended => walk.met = Preorder(root)
=============================================================================
