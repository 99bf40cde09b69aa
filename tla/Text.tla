-------------------------------- MODULE Text --------------------------------
(***************************************************************************)
(* The string tools of cpUtil.cpp: trimming, prefixes and suffixes, tokens,*)
(* lines and paths.  A string is a sequence of characters, of which only   *)
(* those the tools look for are told apart.  The text grows by one         *)
(* character at a time, so that every text up to MaxText is met, and the   *)
(* tools are applied to it as it is.                                       *)
(***************************************************************************)
EXTENDS Naturals, Sequences, SequencesExt

CONSTANTS
    Chars,              \* characters
    Blank, Nl, Cr, Nul, \* blank (or tab), line feed, carriage return, null
    Sep, Dot, Tilde,    \* of paths; all seven may be among Chars
    MaxText             \* bound on the length of the text

VARIABLE text

White == {Blank, Nl, Cr}
LineEnds == {Nl, Cr, Nul}

-----------------------------------------------------------------------------
(* Searching, as std::string does: 0 stands for npos.                      *)

Drop(s, n) == SubSeq(s, n + 1, Len(s))
Take(s, n) == SubSeq(s, 1, IF n < Len(s) THEN n ELSE Len(s))
Places(s, t) == {i \in 1 .. Len(s) + 1 : Take(Drop(s, i - 1), Len(t)) = t}
Find(s, t) == IF Places(s, t) = {} THEN 0 ELSE CHOOSE i \in Places(s, t) : \A j \in Places(s, t) : i <= j
RFind(s, t) == IF Places(s, t) = {} THEN 0 ELSE CHOOSE i \in Places(s, t) : \A j \in Places(s, t) : i >= j

-----------------------------------------------------------------------------
(* Trimming, chomping, prefixes and suffixes.                              *)

IsInk(c) == c \notin White
Ltrim(s) == LET n == SelectInSeq(s, IsInk) IN IF n = 0 THEN <<>> ELSE Drop(s, n - 1)
Rtrim(s) == Take(s, SelectLastInSeq(s, IsInk))
Lchomp(s, n) == Drop(s, n)
Rchomp(s, n) == IF Len(s) > n THEN Take(s, Len(s) - n) ELSE <<>>

CheckPrefix(s, p) == Take(s, Len(p)) = p
RemovePrefix(s, p) == IF Len(s) >= Len(p) /\ Find(s, p) = 1 THEN Drop(s, Len(p)) ELSE s

BaseLen(s, t) == IF Len(s) >= Len(t) THEN Len(s) - Len(t) ELSE 0
CheckSuffix(s, t) == Take(Drop(s, BaseLen(s, t)), Len(t)) = t
RemoveSuffix(s, t) ==
    IF Len(s) >= Len(t) /\ RFind(s, t) = BaseLen(s, t) + 1 THEN Take(s, BaseLen(s, t)) ELSE s

\* The replacement starts over after each step, at occurrences that it has made
\* itself, too.  It need not end where New is longer than Old, though Old does not
\* occur in it.
RECURSIVE Replaced(_, _, _)
Replaced(s, old, new) ==
    LET i == Find(s, old) IN
    IF i = 0 THEN s
    ELSE Replaced(Take(s, i - 1) \o new \o Drop(s, i - 1 + Len(old)), old, new)

ReplaceSubString(s, old, new) == IF Find(new, old) # 0 THEN s ELSE Replaced(s, old, new)

-----------------------------------------------------------------------------
(* Tokens and lines.                                                       *)

\* Nothing follows a delimiter at the end.  An empty delimiter is found for ever.
RECURSIVE Tokenize(_, _)
Tokenize(s, delim) ==
    LET i == Find(s, delim) IN
    CASE s = <<>> -> <<>>
      [] s # <<>> /\ i = 0 -> <<s>>
      [] OTHER -> <<Take(s, i - 1)>> \o Tokenize(Drop(s, i - 1 + Len(delim)), delim)

\* Mutant: the second character of a line end ends another line.
PairOf_Never(s) == FALSE

\* A line feed and a carriage return, in either order, end one line.
PairOf(s) == Len(s) > 1 /\ {s[1], s[2]} = {Nl, Cr}

\* The line so far, and what is left.  A null ends a line, but makes no empty one.
RECURSIVE Lines(_, _)
Lines(line, rest) ==
    IF rest = <<>> THEN IF line = <<>> THEN <<>> ELSE <<line>>
    ELSE IF Head(rest) \in LineEnds
    THEN (IF line # <<>> \/ Head(rest) # Nul THEN <<line>> ELSE <<>>)
             \o Lines(<<>>, Drop(rest, IF PairOf(rest) THEN 2 ELSE 1))
    ELSE Lines(Append(line, Head(rest)), Tail(rest))

BufferToLines(s) == Lines(<<>>, s)

-----------------------------------------------------------------------------
(* Paths.                                                                  *)

LastAt(s, c) == SelectLastInSeq(s, LAMBDA x : x = c)

GetPathComponents(path) ==
    IF path \in {<<Dot>>, <<Dot, Dot>>, <<Tilde>>}
    THEN [directory |-> path, filename |-> <<>>, extension |-> <<>>]
    ELSE LET sep == LastAt(path, Sep)
             name == Drop(path, sep)
             dot == LastAt(name, Dot)
             split == dot > 1           \* a dot in front belongs to the name
         IN  [directory |-> Take(path, sep),
              filename |-> IF split THEN Take(name, dot - 1) ELSE name,
              extension |-> IF split THEN Drop(name, dot) ELSE <<>>]

WalkStep(at, element) ==
    CASE element \in {<<>>, <<Dot>>} -> at
      [] element = <<Dot, Dot>> -> IF at = <<>> THEN at ELSE Front(at)
      [] OTHER -> Append(at, element)

\* The path from the root, whether the given one was relative or not; the root
\* itself becomes an empty string.
NormalizePath(path) ==
    LET at == FoldLeft(WalkStep, <<>>, Tokenize(path, <<Sep>>))
    IN  FlattenSeq([i \in DOMAIN at |-> <<Sep>> \o at[i]])

\* PathCreate: the directories it asks for, in their order, if none is refused.
Deeper(dirs, element) ==
    LET above == IF dirs = <<>> THEN <<>>
                 ELSE IF Last(dirs) = <<Sep>> THEN <<Sep>> ELSE Append(Last(dirs), Sep)
    IN  Append(dirs, above \o (IF dirs = <<>> /\ element = <<>> THEN <<Sep>> ELSE element))

PathCreate(path) == FoldLeft(Deeper, <<>>, Tokenize(path, <<Sep>>))

-----------------------------------------------------------------------------
TextInit == text = <<>>

\* The next character of the text.
TextNext == Len(text) < MaxText /\ \E c \in Chars : text' = Append(text, c)

-----------------------------------------------------------------------------
Rejoined(parts, delim) ==
    IF parts = <<>> THEN <<>>
    ELSE Tail(FlattenSeq([i \in DOMAIN parts |-> <<delim>> \o parts[i]]))

Short == UNION {[1 .. n -> {Sep, Dot}] : n \in 0 .. 2}

TokensMakeText ==
    LET parts == Tokenize(text, <<Sep>>) IN
    /\ \A i \in DOMAIN parts : Sep \notin ToSet(parts[i])
    /\ text \in {Rejoined(parts, Sep), Append(Rejoined(parts, Sep), Sep)}

\* The lines hold all characters but the line ends, and make the same lines again,
\* whatever they are ended with.
LinesMakeText ==
    LET lines == BufferToLines(text)
    IN  /\ FlattenSeq(lines) = SelectSeq(text, LAMBDA c : c \notin LineEnds)
        /\ \A end \in {<<Nl>>, <<Cr>>, <<Nl, Cr>>, <<Cr, Nl>>} :
              BufferToLines(FlattenSeq([i \in DOMAIN lines |-> lines[i] \o end])) = lines
        /\ Nul \notin ToSet(text) =>
              \A n \in 1 .. Len(text) - 1 :
                 (text[n] \in LineEnds /\ ~PairOf(Drop(text, n - 1))) =>
                    lines = BufferToLines(Take(text, n)) \o BufferToLines(Drop(text, n))

\* What is removed from the ends is what was asked for, and nothing else.
AffixesExact ==
    /\ Rtrim(Ltrim(text)) = Ltrim(Rtrim(text))
    /\ \A n \in 0 .. Len(text) : Rchomp(text, n) \o Lchomp(text, Len(text) - n) = text
    /\ \A t \in Short :
          /\ text = IF CheckPrefix(text, t) THEN t \o RemovePrefix(text, t) ELSE RemovePrefix(text, t)
          /\ text = IF CheckSuffix(text, t) THEN RemoveSuffix(text, t) \o t ELSE RemoveSuffix(text, t)
    /\ \A old, new \in Short :
          Len(new) <= Len(old) /\ Find(new, old) = 0 =>
              Find(ReplaceSubString(text, old, new), old) = 0

\* The components make the path again, but for a dot at its end.
ComponentsMakePath ==
    LET p == GetPathComponents(text)
        base == p.directory \o p.filename
    IN  /\ text \in {base \o p.extension, base \o <<Dot>> \o p.extension}
        /\ Sep \notin ToSet(p.filename) /\ Dot \notin ToSet(p.extension)

\* A normal path stays as it is, leads down only, and the first part of a path may
\* be made normal by itself; PathCreate goes the same way, one directory at a time.
NormalIsWalk ==
    LET parts == Tokenize(NormalizePath(text), <<Sep>>)
        dirs == PathCreate(text)
    IN  /\ \A i \in DOMAIN parts : parts[i] \notin {<<Dot>>, <<Dot, Dot>>} /\ (parts[i] = <<>> => i = 1)
        /\ \A n \in 0 .. Len(text) :
              n < Len(text) /\ text[n + 1] = Sep =>
                 NormalizePath(text) = NormalizePath(NormalizePath(Take(text, n)) \o Drop(text, n))
        /\ NormalizePath(NormalizePath(text)) = NormalizePath(text)
        /\ dirs # <<>> => NormalizePath(Last(dirs)) = NormalizePath(text)
        /\ \A i \in DOMAIN dirs : (dirs[i][1] = Sep) = (text[1] = Sep)

\* Taking a text apart loses nothing of it: tokens, lines, affixes and the
\* components of a path make the text again, and its directories, taken from the root,
\* lead where it leads (NormalizePath makes a relative path absolute).
TextIsKept ==
    TokensMakeText /\ LinesMakeText /\ AffixesExact /\ ComponentsMakePath /\ NormalIsWalk
=============================================================================
