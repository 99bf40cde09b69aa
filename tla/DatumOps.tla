------------------------------ MODULE DatumOps ------------------------------
(***************************************************************************)
(* Datum (cpDatum.cpp): a tree of named attributes.  A datum is a record   *)
(* of its attributes, its sub-data in order and a cursor: `self' when the  *)
(* datum itself is current, otherwise `iter', the number of a sub-datum or *)
(* one more than their number for end().  Operations on a datum are        *)
(* functions from the datum before to the datum after; a datum within a    *)
(* tree is named by the path to it, the numbers of the sub-data to follow. *)
(***************************************************************************)
EXTENDS Naturals, Sequences, SequencesExt, FiniteSets, TLC

CONSTANTS NoName,     \* the empty string
          Inert       \* the value an absent attribute reads as

None == [x \in {} |-> x]

\* The constructor, and the global inert datum that failed look-ups return.
NewDatum(name) ==
    [inert |-> FALSE, self |-> TRUE, iter |-> 1, subs |-> <<>>,
     attr |-> IF name = NoName THEN None ELSE "name" :> name]

InertDatum == [NewDatum(NoName) EXCEPT !.inert = TRUE, !.attr = "name" :> Inert]

\* Attr, and the accessors of each attribute: absent ones read as inert.
Attr(d, type) == IF type \in DOMAIN d.attr THEN d.attr[type] ELSE Inert

NameGet(d) == IF "name" \in DOMAIN d.attr THEN d.attr["name"] ELSE NoName

End(d) == Len(d.subs) + 1

\* Find, by name: the first sub-datum that has it, or end().
Find(d, name) ==
    IF \E i \in DOMAIN d.subs : NameGet(d.subs[i]) = name
    THEN CHOOSE i \in DOMAIN d.subs :
             /\ NameGet(d.subs[i]) = name
             /\ \A j \in 1 .. i - 1 : NameGet(d.subs[j]) # name
    ELSE End(d)

-----------------------------------------------------------------------------
(* Attributes; an inert datum refuses them. *)

AttrSet(d, type, value) == IF d.inert THEN d ELSE [d EXCEPT !.attr = type :> value @@ @]

AttrDel(d, type) ==
    IF d.inert THEN d
    ELSE [d EXCEPT !.attr = [t \in DOMAIN @ \ {type} |-> @[t]]]

NameSet(d, name) == IF name = NoName THEN AttrDel(d, "name") ELSE AttrSet(d, "name", name)

-----------------------------------------------------------------------------
(* Copies and the tree *)

\* Mutant: only the list iterator goes back.
Rewound_KeepSelf(d) == [d EXCEPT !.iter = 1]

Rewound(d) == [d EXCEPT !.self = TRUE, !.iter = 1]

\* The assignment of r to d: an inert datum stays as it is, all other data in
\* the copy are rewound.  The list of sub-data is assigned to the list there was.
RECURSIVE Assigned(_, _)
Assigned(d, r) ==
    IF d.inert THEN d
    ELSE [Rewound(r) EXCEPT !.subs =
              [i \in DOMAIN r.subs |->
                  Assigned(IF i \in DOMAIN d.subs THEN d.subs[i] ELSE NewDatum(NoName), r.subs[i])]]

Copy(r) == Assigned(NewDatum(NoName), r)

Cleared(d) == Assigned(d, NewDatum(NameGet(d)))

\* Add replaces the sub-datum of the same name, if there is a name, and makes
\* what it added current.
Add(d, r) ==
    LET i == Find(d, NameGet(r))
        replaces == i # End(d) /\ NameGet(r) # NoName
    IN  IF d.inert THEN d
        ELSE [d EXCEPT !.subs = IF replaces THEN [@ EXCEPT ![i] = Assigned(@, r)]
                                ELSE Append(@, Copy(r)),
                       !.iter = IF replaces THEN i ELSE End(d), !.self = FALSE]

Select(d, name) ==
    IF d.inert THEN d
    ELSE [d EXCEPT !.iter = Find(d, name), !.self = @ /\ Find(d, name) = End(d)]

\* Erase removes what the cursor points to, which after Rewind is the first
\* sub-datum, and leaves the cursor at the end.
EraseAt(d, i) == IF i = End(d) THEN d ELSE [d EXCEPT !.subs = RemoveAt(@, i), !.iter = Len(d.subs)]

Erase(d) == EraseAt(d, d.iter)
EraseNamed(d, name) == EraseAt(d, Find(d, name))

-----------------------------------------------------------------------------
(* The cursor *)

\* Advance: [datum |-> the tree after it, rv |-> whether there is a current one].
\* A branch is exhausted before this level moves on, and a datum that becomes
\* current is rewound.
RECURSIVE Advance(_, _)
Advance(d, recurse) ==
    LET valid == ~d.self /\ d.iter # End(d)
        sub == IF valid /\ recurse /\ ~d.inert THEN Advance(d.subs[d.iter], TRUE)
               ELSE [datum |-> d, rv |-> FALSE]
        moved == IF d.self THEN [d EXCEPT !.self = FALSE, !.iter = 1]
                 ELSE IF ~valid THEN d
                 ELSE IF ~recurse THEN [d EXCEPT !.iter = @ + 1]
                 ELSE [d EXCEPT !.subs[d.iter] = sub.datum,
                                !.iter = IF sub.rv THEN @ ELSE @ + 1]
        rv == moved.iter # End(moved)
    IN  IF d.inert THEN [datum |-> d, rv |-> FALSE]
        ELSE [rv |-> rv,
              datum |-> IF rv /\ ~sub.rv THEN [moved EXCEPT !.subs[moved.iter] = Rewound(@)]
                        ELSE moved]

\* GetRecursive, as the path to what it returns; <<0>> ends the path to the
\* inert datum.
RECURSIVE GetRecursive(_)
GetRecursive(d) ==
    IF d.self THEN <<>>
    ELSE IF d.iter = End(d) THEN <<0>>
    ELSE <<d.iter>> \o GetRecursive(d.subs[d.iter])

-----------------------------------------------------------------------------
(* A datum within a tree *)

RECURSIVE At(_, _)
At(d, path) == IF path = <<>> THEN d ELSE At(d.subs[path[1]], Tail(path))

RECURSIVE Put(_, _, _)
Put(d, path, new) ==
    IF path = <<>> THEN new
    ELSE [d EXCEPT !.subs[path[1]] = Put(@, Tail(path), new)]

\* The paths to all data below d, each before those below it: the order in which
\* Encode(SerDes) and Display visit them.
RECURSIVE Preorder(_)
Preorder(d) ==
    FlattenSeq([i \in DOMAIN d.subs |->
                    <<(<<i>>)>> \o LET below == Preorder(d.subs[i])
                                   IN  [k \in DOMAIN below |-> <<i>> \o below[k]]])

Paths(d) == {<<>>} \cup Range(Preorder(d))
=============================================================================
