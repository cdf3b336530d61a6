---------------------------- MODULE HTTPHeaders ----------------------------
(***************************************************************************)
(* tornado.httputil.HTTPHeaders (src/tornado/httputil.py): one value per   *)
(* name in _dict, joined with commas, and the list of values in _as_list.  *)
(* A string of header values is the sequence of what its commas separate,  *)
(* so joining with a comma is concatenation.  Both dictionaries are kept   *)
(* in the order of insertion.                                              *)
(***************************************************************************)
EXTENDS Naturals, Sequences, SequencesExt

CONSTANTS
    Spelling,  \* header names as written
    Header,    \* header names in normal form
    Normal,    \* _normalize_header: a function from Spelling to Header
    Part,      \* what the commas of values separate
    Text,      \* values as given to add(): sequences of parts
    LStripped, \* a part without the blanks it begins with: a function on Part
    RStripped, \* a part without the blanks it ends with: a function on Part
    MaxValues  \* bound on the values of an object

\* Normalising a name twice is normalising it once (names are ASCII tokens), and
\* a value has at least one part: the empty string is one empty part.
ASSUME HeadersAssumption ==
    /\ Normal \in [Spelling -> Header]
    /\ Header \subseteq Spelling
    /\ \A n \in Header : Normal[n] = n
    /\ LStripped \in [Part -> Part] /\ RStripped \in [Part -> Part]
    /\ \A v \in Text : v \in Seq(Part) /\ v # <<>>

VARIABLE h     \* the object: _dict, _as_list and the order of their keys

Empty == [dict |-> [n \in Header |-> <<>>], asList |-> [n \in Header |-> <<>>], order |-> <<>>]

HeadersInit == h = Empty

\* `norm_name in self._dict`; no value has no part.
Has(o, n) == o.dict[n] # <<>>

\* strip() takes the blanks before the first part of a value and behind the last.
Strip(v) ==
    [i \in DOMAIN v |->
        LET first == IF i = 1 THEN LStripped[v[i]] ELSE v[i]
        IN  IF i = Len(v) THEN RStripped[first] ELSE first]

Count(o) == Len(FlattenSeq([i \in DOMAIN o.order |-> o.asList[o.order[i]]]))

-----------------------------------------------------------------------------
(* Seeded mistakes, used by no behaviour of the specification. *)

\* Setting a header appends to the list of its values.
SetItemAppends(o, name, v) ==
    LET n == Normal[name] IN
    [dict   |-> [o.dict EXCEPT ![n] = v],
     asList |-> [o.asList EXCEPT ![n] = Append(@, v)],
     order  |-> IF Has(o, n) THEN o.order ELSE Append(o.order, n)]

-----------------------------------------------------------------------------
\* add(name, value)
Add(o, name, v) ==
    LET n == Normal[name] IN
    [dict   |-> [o.dict EXCEPT ![n] = @ \o v],
     asList |-> [o.asList EXCEPT ![n] = Append(@, v)],
     order  |-> IF Has(o, n) THEN o.order ELSE Append(o.order, n)]

\* __setitem__
SetItem(o, name, v) ==
    LET n == Normal[name] IN
    [dict   |-> [o.dict EXCEPT ![n] = v],
     asList |-> [o.asList EXCEPT ![n] = <<v>>],
     order  |-> IF Has(o, n) THEN o.order ELSE Append(o.order, n)]

\* __delitem__ of a header that is there.
DelItem(o, name) ==
    LET n == Normal[name] IN
    [dict   |-> [o.dict EXCEPT ![n] = <<>>],
     asList |-> [o.asList EXCEPT ![n] = <<>>],
     order  |-> RemoveFirst(o.order, n)]

\* get_all(): the pairs of a name and one of its values.
GetAll(o) ==
    FlattenSeq([i \in DOMAIN o.order |->
        [j \in DOMAIN o.asList[o.order[i]] |-> <<o.order[i], o.asList[o.order[i]][j]>>]])

\* parse_line(): the value without the blanks around it.
ParseLine(o, line) == Add(o, line[1], Strip(line[2]))

\* parse(): blank lines are skipped; one without a colon raises HTTPInputError.
ParseNext(o, line) == IF line = <<>> THEN o ELSE ParseLine(o, line)
Parse(lines) == FoldLeft(ParseNext, Empty, lines)

\* HTTPHeaders(other), HTTPHeaders(list of pairs)
AddPair(o, pair) == Add(o, pair[1], pair[2])
FromPairs(pairs) == FoldLeft(AddPair, Empty, pairs)

\* __str__: a line for each pair.
ToLines(o) == GetAll(o)

HeadersNext ==
    \/ \E name \in Spelling, v \in Text :
          \/ Count(h) < MaxValues /\ h' = Add(h, name, v)
          \/ Count(h) < MaxValues /\ h' = ParseLine(h, <<name, v>>)
          \/ (Has(h, Normal[name]) \/ Count(h) < MaxValues) /\ h' = SetItem(h, name, v)
    \/ \E name \in Spelling : Has(h, Normal[name]) /\ h' = DelItem(h, name)

HeadersSpec == HeadersInit /\ [][HeadersNext]_h

-----------------------------------------------------------------------------
\* The two dictionaries have the same keys, and the value of each name is the
\* join of its list, after any mixture of additions, assignments, deletions
\* and parsed lines under any spelling.  A copy made from the object is equal
\* to it, and parsing what str() writes gives it back, less outer blanks.
HeadersAgree ==
    /\ \A n \in Header : h.dict[n] = FlattenSeq(h.asList[n])
    /\ ToSet(h.order) = {n \in Header : Has(h, n)} /\ IsInjective(h.order)
    /\ FromPairs(GetAll(h)) = h
    /\ LET back == Parse(ToLines(h)) IN
       /\ back.order = h.order
       /\ \A n \in Header : back.asList[n] = [i \in DOMAIN h.asList[n] |-> Strip(h.asList[n][i])]
=============================================================================
