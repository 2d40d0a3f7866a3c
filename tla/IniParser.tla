------------------------------- MODULE IniParser -------------------------------
(***************************************************************************)
(* The INI parser of iniparser.c over a dictionary: iniparser_load reads a *)
(* file line by line into a new dictionary; its user queries, changes and  *)
(* frees it.  What iniparser_line and its sscanf patterns make of a line   *)
(* is the line's kind; a value is the sequence of the pieces of text that  *)
(* continued lines contribute to it, none of them quoted, and white space  *)
(* is not told apart.  Comments, section names and junk have no `=', and   *)
(* only section lines end in a bracket.  strlwc copies (its tolower is     *)
(* commented out), so names are compared as they are.                      *)
(***************************************************************************)
EXTENDS Dictionary

CONSTANTS
    IniLines,    \* the physical lines a file may consist of: records
                 \* [kind, name, text, end], end one of newline, backslash, none
    MaxLines,    \* bound: lines of a file
    MaxSize,     \* bound: length of the arrays
    EditVal,     \* bound: the values the user sets
    Absent,      \* no entry
    Prefix,      \* Prefix[k]: s when k is "s:...", NULL when k has no colon
    Glue         \* Glue[v][k]: the name of the texts v with k behind them
IniText == {l.text : l \in IniLines}
Texts == UNION {[1 .. n -> IniText] : n \in 1 .. MaxLines}
ASSUME IniAssumption ==
    /\ IniLines \subseteq [kind : {"blank", "comment", "section", "value", "junk"},
                           name : Name \cup {NULL}, text : IniText,
                           end : {"newline", "backslash", "none"}]
    /\ \A l \in IniLines : l.kind \in {"section", "value"} => l.name # NULL
    /\ Absent \notin Val \cup {NULL}
    /\ MaxLines \in Nat /\ EditVal \subseteq Val
    /\ Texts \subseteq Val
    /\ Prefix \in [Name -> Name \cup {NULL}] /\ Glue \in [Texts -> [Name -> Name]]

VARIABLES
    iniPc,    \* closed, reading, held, edited (dictionary with its user), null,
              \* crash (a NULL array or value is read), stray (see EndLine)
    dict,     \* the dictionary
    iniRead,  \* the lines read so far
    iniLine,  \* line[0..last): what continued lines have left
    errs,     \* errs of iniparser_load
    noMem     \* an allocation has failed in this load
iniVars == <<iniPc, dict, iniRead, iniLine, errs, noMem>>

NoText == [kind |-> "blank", name |-> NULL, val |-> <<>>]

iniInit == /\ iniPc = "closed" /\ dict = NewDict /\ iniRead = <<>> /\ iniLine = NoText
           /\ errs = 0 /\ noMem = FALSE

\* fopen and dictionary_new, which checks the record but not its arrays
Open == /\ iniPc = "closed" /\ iniPc' = "reading"
        /\ \E lost \in SUBSET {"key", "val", "hash"} :
               dict' = [NewDict EXCEPT !.gone = lost] /\ noMem' = (lost # {})
        /\ UNCHANGED <<iniRead, iniLine, errs>>

\* fopen, or the allocation of the record, fails
OpenFails == /\ iniPc = "closed" /\ iniPc' = "null" /\ noMem' = TRUE
             /\ UNCHANGED <<dict, iniRead, iniLine, errs>>

\* Mutant: the text of continued lines is lost
JoinLast(p, l) == [kind |-> l.kind, name |-> l.name, val |-> <<l.text>>]

\* A line that has begun as a section or as junk has no key yet; one of several
\* pieces is a section if the first begins with a bracket and the last ends in
\* one, otherwise it is "broken".
Keyless == {"section", "broken", "junk"}
Turns(kind, l) == IF kind = "junk" THEN "junk" ELSE IF l.kind = "section" THEN "section" ELSE "broken"

\* line with the text of l behind what is there: a comment swallows it, also one
\* behind a value ("ended"), a value grows, what is before the key belongs to it,
\* blanks are stripped
Join(p, l) ==
    CASE p.kind = "blank" -> [kind |-> l.kind, name |-> l.name, val |-> <<l.text>>]
      [] p.kind = "value" /\ l.kind = "comment" -> [p EXCEPT !.kind = "ended"]
      [] p.kind = "value" /\ l.kind \notin {"blank", "comment"} -> [p EXCEPT !.val = Append(@, l.text)]
      [] p.kind \in Keyless /\ l.kind = "value" ->
             [kind |-> "value", name |-> Glue[p.val][l.name], val |-> <<l.text>>]
      [] p.kind \in Keyless /\ l.kind \notin {"blank", "value"} ->
             [p EXCEPT !.kind = Turns(p.kind, l), !.val = Append(@, l.text)]
      [] OTHER -> p

\* dictionary_del of d, and where that leads
Discard(d, l) == IF DelFaults(d) THEN iniPc' = "crash" /\ dict' = d
                 ELSE iniPc' = l /\ dict' = NewDict

\* dictionary_set of a missing array faults; a failed copy is not noticed; a
\* failed growth ends the load.  Bound: one failure a load.
Store(k, v) ==
    \/ /\ dict.gone # {} /\ iniPc' = "crash" /\ UNCHANGED <<dict, errs, noMem>>
    \/ /\ dict.gone = {} /\ errs' = 0 /\ UNCHANGED iniPc
       /\ \E d \in Sets(dict, k, v) : /\ dict' = d /\ Size(d) <= MaxSize
                                      /\ noMem' = (noMem \/ Hits(d, k) = {} \/ Get(d, k, NULL) # v)
                                      /\ noMem => (Hits(d, k) # {} /\ Get(d, k, NULL) = v)
    \/ /\ dict.gone = {} /\ ~noMem /\ noMem' = TRUE /\ errs' = 0
       /\ \E d \in SetFails(dict, k) : Discard(d, "null")

\* one turn of the loop of iniparser_load:
\* a line without a newline, too long or the last one of the file, is refused
CutLine(l) == /\ l.end = "none" /\ Discard(dict, "null") /\ errs' = 0
              /\ iniLine' = NoText /\ UNCHANGED noMem

\* a line that ends in a backslash waits for the next one
Continue(l) == /\ l.end = "backslash" /\ iniLine' = Join(iniLine, l)
               /\ UNCHANGED <<iniPc, dict, errs, noMem>>

\* iniparser_line and its switch.  When nothing is left of the line, line[-1]
\* is read (line 586): a byte in front of the array that may be a backslash,
\* and the next line would be stored from there.
\* A section or value line forgets the syntax errors before it.
Take(line) ==
    CASE line.kind = "blank" -> /\ iniPc' \in {iniPc, "stray"}
                                /\ UNCHANGED <<dict, errs, noMem>>
      [] line.kind = "comment" -> UNCHANGED <<iniPc, dict, errs, noMem>>
      [] line.kind = "section" -> Store(line.name, NULL)
      [] line.kind \in {"value", "ended"} -> Store(line.name, line.val)
      [] line.kind \in {"junk", "broken"} -> errs' = errs + 1 /\ UNCHANGED <<iniPc, dict, noMem>>

EndLine(l) == l.end = "newline" /\ iniLine' = NoText /\ Take(Join(iniLine, l))

ReadLine == \E l \in IniLines :
    /\ iniPc = "reading" /\ Len(iniRead) < MaxLines
    /\ iniRead' = Append(iniRead, l)
    /\ CutLine(l) \/ Continue(l) \/ EndLine(l)

\* the end of the file: what waits for a next line is dropped
Eof == /\ iniPc = "reading" /\ iniLine' = NoText
       /\ IF errs = 0 THEN iniPc' = "held" /\ UNCHANGED dict ELSE Discard(dict, "null")
       /\ errs' = 0
       /\ UNCHANGED <<iniRead, noMem>>

\* the caller got NULL
LoadFailed == /\ iniPc = "null" /\ iniPc' = "closed" /\ iniRead' = <<>> /\ noMem' = FALSE
              /\ UNCHANGED <<dict, iniLine, errs>>

Owned == iniPc \in {"held", "edited"}
Edited == iniPc' = "edited" /\ iniRead' = <<>> /\ noMem' = FALSE /\ UNCHANGED <<iniLine, errs>>

Crash == iniPc' = "crash" /\ UNCHANGED <<dict, iniRead, iniLine, errs, noMem>>

\* iniparser_set; with an array missing it faults, unless its search does not
\* and it fails again to grow
IniSet(k, v) ==
    /\ Owned
    /\ \/ /\ dict.gone = {} /\ dict' \in Sets(dict, k, v) /\ Size(dict') <= MaxSize
          /\ Edited
       \/ ~SearchFaults(dict, k) /\ dict' \in SetFails(dict, k) /\ Edited
       \/ dict.gone # {} /\ Crash

\* iniparser_unset
IniUnset(k) == /\ Owned
               /\ \/ ~SearchFaults(dict, k) /\ dict' = Unset(dict, k) /\ Edited
                  \/ SearchFaults(dict, k) /\ Crash

\* iniparser_getint, _getdouble, _getboolean read the value they find
IniAsk(k) == /\ Owned
             /\ \/ SearchFaults(dict, k)
                \/ Hits(dict, k) # {} /\ Get(dict, k, NULL) = NULL
             /\ Crash

\* iniparser_freedict
IniFree == /\ Owned /\ Discard(dict, "closed") /\ iniRead' = <<>> /\ noMem' = FALSE
           /\ UNCHANGED <<iniLine, errs>>

iniNext == \/ Open \/ OpenFails \/ ReadLine \/ Eof \/ LoadFailed \/ IniFree
           \/ \E k \in Name : \/ IniUnset(k) \/ IniAsk(k)
                              \/ \E v \in EditVal : IniSet(k, v)
IniSpec == iniInit /\ [][iniNext]_iniVars

-----------------------------------------------------------------------------
(* The accessors *)

FindEntry(k) == Hits(dict, k) # {}

\* how many elements of S are not above i
Rank(S, i) == Cardinality({j \in S : j <= i})

SectionSlots(d) == {i \in Filled(d) : Prefix[d.key[i]] = NULL}
Nsec == Cardinality(SectionSlots(dict))
\* Mutant: an entry too far
SecNameNext(n) == LET S == {i \in SectionSlots(dict) : Rank(SectionSlots(dict), i) = n}
                  IN IF S = {} THEN NULL ELSE dict.key[Lowest(S)]
SecName(n) == LET S == {i \in SectionSlots(dict) : Rank(SectionSlots(dict), i) > n}
              IN IF S = {} THEN NULL ELSE dict.key[Lowest(S)]

\* the slots iniparser_dump_ini prints under the header of section s
DumpedUnder(s) == {j \in Filled(dict) : Prefix[dict.key[j]] = s}

-----------------------------------------------------------------------------
(* What a file means, without a parser's state *)

Ended(f) == {j \in DOMAIN f : f[j].end = "newline"}

\* the physical lines of the logical line that ends at j, but for blank ones
Solid(f, j) == {i \in 1 .. j : /\ f[i].kind # "blank"
                               /\ \A m \in i .. j - 1 : f[m].end = "backslash"}
Keyed(f, S) == {i \in S : f[i].kind = "value"}
EndsIn(f, S, kind) == \E i \in S : f[i].kind = kind /\ \A m \in S : m <= i

\* what the lines S, one behind the other, are
LineKind(f, S) == IF S = {} THEN "blank"
                  ELSE IF f[Lowest(S)].kind = "comment" THEN "comment"
                  ELSE IF Keyed(f, S) # {} THEN "value"
                  ELSE IF f[Lowest(S)].kind = "section" /\ EndsIn(f, S, "section") THEN "section"
                  ELSE "junk"

\* the texts of the lines in M, in order
TextOf(f, M) == [r \in 1 .. Cardinality(M) |-> f[CHOOSE m \in M : Rank(M, m) = r].text]

KeyLine(f, S) == Lowest(Keyed(f, S))
Ahead(f, S) == {i \in S : i < KeyLine(f, S)}
KeyName(f, S) == IF Ahead(f, S) = {} THEN f[KeyLine(f, S)].name
                 ELSE Glue[TextOf(f, Ahead(f, S))][f[KeyLine(f, S)].name]
ValueLines(f, S) == {m \in S \ Ahead(f, S) :
                        \A q \in S : KeyLine(f, S) < q /\ q <= m => f[q].kind # "comment"}

KindAt(f, j)  == LineKind(f, Solid(f, j))
NameAt(f, j)  == IF KindAt(f, j) = "section" THEN f[Lowest(Solid(f, j))].name ELSE KeyName(f, Solid(f, j))
ValueAt(f, j) == IF KindAt(f, j) = "section" THEN NULL ELSE TextOf(f, ValueLines(f, Solid(f, j)))

Mentions(f, k) == {j \in Ended(f) : KindAt(f, j) \in {"section", "value"} /\ NameAt(f, j) = k}

\* an unfinished line, or an error with no section or value after it
Refused(f) == \/ \E i \in DOMAIN f : f[i].end = "none"
              \/ \E j \in Ended(f) : /\ KindAt(f, j) = "junk"
                                     /\ \A m \in Ended(f) : KindAt(f, m) \in {"section", "value"} => m < j

\* iniparser_load returns NULL exactly for the files it refuses, and otherwise
\* a dictionary in which every name the file mentions has the value of its last
\* mention (none for a section) and no other name is, unless memory ran out.  The
\* name of an entry is the key alone: what holds instead of SectionKeys.
IniMeaning ==
    /\ iniPc = "null" /\ ~noMem => Refused(iniRead)
    /\ iniPc = "held" /\ ~noMem =>
           /\ ~Refused(iniRead)
           /\ \A k \in Name :
                  IF Mentions(iniRead, k) = {} THEN ~FindEntry(k)
                  ELSE /\ FindEntry(k)
                       /\ LET j == CHOOSE j \in Mentions(iniRead, k) :
                                       \A m \in Mentions(iniRead, k) : m <= j
                          IN Get(dict, k, NULL) = ValueAt(iniRead, j)

\* A key as read from an ini file is given as "section:key" (iniparser.c:264-265):
\* an entry below a section line is found under a name with that section.
SectionsBefore(f, j) == {m \in Ended(f) : m < j /\ KindAt(f, m) = "section"}
SectionKeys ==
    iniPc = "held" /\ ~noMem =>
        \A j \in Ended(iniRead) : \A m \in SectionsBefore(iniRead, j) :
            /\ KindAt(iniRead, j) = "value"
            /\ \A i \in SectionsBefore(iniRead, j) : i <= m
            => \E k \in Name : Prefix[k] = NameAt(iniRead, m) /\ FindEntry(k)

\* The arrays stay parallel, the names unique, the count between the names and
\* the room, over insertions, deletions, failed copies and growth.
IniShape == DictShape(dict) /\ (iniPc = "closed" => Filled(dict) = {})

\* iniparser_getsecname has a name for every number below iniparser_getnsec,
\* a different one each, so that iniparser_dump_ini never takes the length of
\* NULL; it prints no entry under two headers.
IniSections ==
    /\ \A n \in 0 .. Nsec - 1 : /\ SecName(n) # NULL /\ FindEntry(SecName(n))
                                /\ \A m \in 0 .. n - 1 : SecName(m) # SecName(n)
    /\ SecName(Nsec) = NULL
    /\ \A n, m \in 0 .. Nsec - 1 : n # m => DumpedUnder(SecName(n)) \cap DumpedUnder(SecName(m)) = {}

Map == INSTANCE Assoc WITH map <- [k \in Name |-> Get(dict, k, Absent)]
\* One call changes at most one name: no growth, deletion or insertion into a
\* freed slot disturbs the entry of another, also when memory runs out.
DictIsMap == Map!Init /\ [][Map!Next]_dict

=============================================================================
