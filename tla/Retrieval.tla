------------------------------ MODULE Retrieval ------------------------------
(***************************************************************************)
(* The index of a snapshot's functions that detection and falsification    *)
(* look evidence up in: detect/retrieval/index.py.                         *)
(*                                                                         *)
(* A line is what the queries can tell of it: the names it calls, and the  *)
(* words and regex guards that its text contains.                          *)
(***************************************************************************)
EXTENDS Integers, Sequences, FiniteSets

CONSTANTS
    Files,       \* paths of the snapshot's files
    Skipped,     \* those in vendored and build directories, or not source
    PathOrder,   \* place of a path among all
    PathLength,
    SymbolOrder, \* place of a function's name among all
    EndsWith,    \* <<n, m>>: the name n, of a file or cited, ends in m
    Source,      \* what a file holds: language, parses, definitions, lines
    Grammars     \* languages whose tree-sitter grammar can be loaded

ASSUME RetrievalAssumption ==
    /\ IsFiniteSet(Files) /\ Skipped \subseteq Files
    /\ PathOrder \in [Files -> Nat] /\ PathLength \in [Files -> Nat]
    /\ \A p, q \in Files : PathOrder[p] = PathOrder[q] => p = q
    /\ \A p \in Files :
        /\ Len(Source[p].lines) \in Nat
        /\ \A l \in 1 .. Len(Source[p].lines) :
            IsFiniteSet(Source[p].lines[l].calls) /\ IsFiniteSet(Source[p].lines[l].words)
        /\ IsFiniteSet(Source[p].definitions)
        /\ \A d \in Source[p].definitions :
            /\ {d.first, d.last, d.place, SymbolOrder[d.symbol]} \subseteq Nat
            /\ 1 <= d.first /\ d.first <= d.last /\ d.last <= Len(Source[p].lines)
            /\ \A e \in Source[p].definitions : d.place = e.place => d = e
        /\ SymbolOrder[p] \in Nat

Least(m, n) == IF m < n THEN m ELSE n
Most(m, n) == IF m < n THEN n ELSE m

First(s, n) == SubSeq(s, 1, Least(n, Len(s)))

(* The elements of S as a strict order of them, a set of pairs, has them. *)
Ordered(S, order) ==
    [i \in 1 .. Cardinality(S) |->
        CHOOSE x \in S : Cardinality({y \in S : <<y, x>> \in order}) = i - 1]

-----------------------------------------------------------------------------
(* Building *)

(* iter_source_files *)
Walked == Files \ Skipped

Height(p) == Len(Source[p].lines)

CallsIn(p, first, last) ==
    UNION {Source[p].lines[l].calls : l \in first .. Least(last, Height(p))}

(* The place is that in the walk over the file. *)
Info(p, d) == [file |-> p, symbol |-> d.symbol, first |-> d.first, last |-> d.last,
               place |-> d.place, calls |-> CallsIn(p, d.first, d.last)]

(* Each function, with whatever is called in it and in functions inside it. *)
Functions(p) == {Info(p, d) : d \in Source[p].definitions}

(* _index_python *)
PythonFunctions(p) == IF Source[p].parses THEN Functions(p) ELSE {}

(* _index_lexical: the file as one function, if it seems to call anything. *)
Lexical(p) ==
    {i \in {Info(p, [symbol |-> p, first |-> 1, last |-> Most(1, Height(p)), place |-> 1])} :
        i.calls # {}}

(* _index_treesitter: a language whose grammar cannot be loaded is read as text. *)
ParsedFunctions(p) ==
    IF Source[p].language \in Grammars THEN Functions(p) ELSE Lexical(p)

(* build *)
IndexOf(p) ==
    CASE Source[p].language = "python" -> PythonFunctions(p)
      [] Source[p].language = "other" -> Lexical(p)
      [] OTHER -> ParsedFunctions(p)

Index == UNION {IndexOf(p) : p \in Walked}

-----------------------------------------------------------------------------
(* Queries *)

Shorter(p, q) ==
    \/ PathLength[p] < PathLength[q]
    \/ PathLength[p] = PathLength[q] /\ PathOrder[p] < PathOrder[q]

(* _resolve_file: the file of that name, or the shortest that ends in it or
   that it ends in. *)
Resolve(name) ==
    LET near == {p \in Walked : <<name, p>> \in EndsWith \/ <<p, name>> \in EndsWith}
    IN  IF name \in Walked THEN {name}
        ELSE {p \in near : \A q \in near \ {p} : Shorter(p, q)}

(* Functions that begin in one line stay as they were found. *)
Precedes(i, j) ==
    \/ PathOrder[i.file] < PathOrder[j.file]
    \/ i.file = j.file /\ (i.first < j.first \/ (i.first = j.first /\ i.place < j.place))

ByPlace(S) == Ordered(S, {p \in S \X S : Precedes(p[1], p[2])})

(* find_callers *)
Callers(symbol) == ByPlace({i \in Index : symbol \in i.calls})

SameStart(i, j) == i.file = j.file /\ i.first = j.first /\ i.symbol = j.symbol

(* find_callees: every definition of a name that a definition of symbol calls; of
   two of one name that begin in one line, the first.  Of two names, the code takes
   the order of a set, the same whenever one process asks. *)
Callees(symbol) ==
    LET called == UNION {i.calls : i \in {j \in Index : j.symbol = symbol}}
    IN  ByPlace({i \in Index : /\ i.symbol \in called
                               /\ \A j \in Index : SameStart(i, j) => i.place <= j.place})

Shared(i, names) == Cardinality(i.calls \cap names)

Nearer(i, j, names) ==
    \/ Shared(i, names) > Shared(j, names)
    \/ Shared(i, names) = Shared(j, names) /\ Precedes(i, j)

(* find_similar_patterns *)
Similar(names, limit) ==
    LET alike == {i \in Index : Shared(i, names) > 0}
    IN  First(Ordered(alike, {p \in alike \X alike : Nearer(p[1], p[2], names)}), limit)

Named(i, j) ==
    \/ SymbolOrder[i.symbol] < SymbolOrder[j.symbol]
    \/ SymbolOrder[i.symbol] = SymbolOrder[j.symbol] /\ i.place < j.place

Smaller(i, j) ==
    \/ i.last - i.first < j.last - j.first
    \/ /\ i.last - i.first = j.last - j.first
       /\ i.first < j.first \/ (i.first = j.first /\ Named(i, j))

(* find_enclosing: the functions that overlap the lines, the smallest first. *)
Enclosing(name, first, last) ==
    LET around == {i \in Index : /\ i.file \in Resolve(name)
                                 /\ i.first <= last /\ first <= i.last}
    IN  Ordered(around, {p \in around \X around : Smaller(p[1], p[2])})

(* A stretch of a file; lines beyond its end hold nothing. *)
Stretch(p, symbol, start, end) ==
    [file |-> p, symbol |-> symbol, first |-> start + 1, last |-> end, place |-> 0,
     calls |-> {}]

(* file_excerpt: the lines and some around them, as none or one stretch. *)
Excerpt(name, first, last, around) ==
    ByPlace({Stretch(p, "context", Most(0, first - around - 1),
                     Least(Height(p), last + around)) : p \in Resolve(name)})

(* find_text_references: file by file, line by line. *)
References(word, limit, around) ==
    LET lines == UNION {{[file |-> p, first |-> l, last |-> l, place |-> 0] :
                            l \in {m \in 1 .. Height(p) : word \in Source[p].lines[m].words}} :
                          p \in Walked}
        order == First(ByPlace(lines), limit)
    IN  [n \in DOMAIN order |->
            Stretch(order[n].file, "reference", Most(0, order[n].first - 1 - around),
                    Least(Height(order[n].file), order[n].first + around))]
=============================================================================
