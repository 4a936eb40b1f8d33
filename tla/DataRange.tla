------------------------------ MODULE DataRange ------------------------------
(***************************************************************************)
(* The byte ranges of a get_data request (cyfs-lib/base/range.ts): a list  *)
(* of ranges, or the text of a Range header, becomes the ranges of the     *)
(* response, for data of a given size (convert_to_response).               *)
(*                                                                         *)
(* The order of ranges, and gaps between commas, which the code skips, are *)
(* abstracted: a request is a set.  A spec of a header is what stands      *)
(* before and after its dash; that both are numbers is assumed.            *)
(***************************************************************************)
EXTENDS Integers

CONSTANTS Numbers, \* what a request may name
          Sizes,   \* sizes of the data
          Blank,   \* nothing, before or after a dash, or in a list's range
          Headers, \* sets of specs, see Specs
          Lists    \* sets of ranges, see Ranges

MaybeNumbers == Numbers \cup {Blank}
Specs  == [dash : BOOLEAN, first : MaybeNumbers, last : MaybeNumbers]
Ranges == [start : MaybeNumbers, length : MaybeNumbers]

ASSUME RangeAssumption ==
  /\ Numbers \subseteq Nat
  /\ Sizes \subseteq Nat
  /\ Blank \notin Nat
  /\ Headers \subseteq SUBSET Specs
  /\ Lists \subseteq SUBSET Ranges

VARIABLES
  form,    \* the request is a "text", a "list" or the "empty" text
  bytes,   \* the text begins with "bytes="
  specs,   \* ... and these specs follow
  list,    \* the ranges of the list
  size,    \* size of the data
  response \* what convert_to_response returns, when it has

vars == <<form, bytes, specs, list, size, response>>

\* NDNDataResponseRange: "Range" with the ranges [start, end), and "Whole"
\* for undefined: the data is served as it is.
Response(kind, ranges) == [kind |-> kind, ranges |-> ranges]
Pending == Response("Pending", {})

-----------------------------------------------------------------------------
Least(m, n) == IF m < n THEN m ELSE n
Parsed(start, length) == [start |-> start, end |-> start + length]

\* MUTANT: a suffix longer than the data that is not cut.
SuffixUncut(n, z) == IF n = 0 THEN {} ELSE {Parsed(z - n, n)}

\* "-n": the last n bytes.
Suffix(n, z) == IF n = 0 THEN {} ELSE {Parsed(z - Least(n, z), Least(n, z))}

\* MUTANT: an end that is taken as exclusive.
FromExclusive(a, b, z) ==
  IF a >= z THEN {}
  ELSE IF b = Blank THEN {Parsed(a, z - a)} ELSE {Parsed(a, Least(b, z - 1) - a)}

\* "a-" and "a-b".
From(a, b, z) ==
  IF a >= z THEN {}
  ELSE IF b = Blank THEN {Parsed(a, z - a)} ELSE {Parsed(a, Least(b, z - 1) - a + 1)}

\* A spec that is an error: no dash, nothing around it, or backwards.  A
\* spec that begins behind the data is not looked at any further.
Refused(s, z) ==
  \/ ~s.dash
  \/ s.first = Blank /\ s.last = Blank
  \/ s.first # Blank /\ s.first < z /\ s.last # Blank /\ s.first > s.last

\* parse_single_range of a spec that is no error: one range, or none.
ParseSingle(s, z) ==
  IF s.first = Blank THEN Suffix(s.last, z) ELSE From(s.first, s.last, z)

\* 0 is taken for a start or length that is not there.
Given(n) == n \notin {Blank, 0}

\* MUTANT: the length is taken for the end.
RangeEndsAtLength(r, z) ==
  LET start == IF Given(r.start) THEN r.start ELSE 0 IN
  IF Given(r.start) /\ start >= z THEN {}
  ELSE IF Given(r.length)
       THEN {[start |-> start, end |-> Least(r.length, z - start)]}
       ELSE {Parsed(start, z - start)}

\* parse_range of a range that has a start or a length.
ParseRange(r, z) ==
  LET start == IF Given(r.start) THEN r.start ELSE 0 IN
  IF Given(r.start) /\ start >= z THEN {}
  ELSE IF Given(r.length) THEN {Parsed(start, Least(r.length, z - start))}
  ELSE {Parsed(start, z - start)}

\* convert_to_response: the ranges found for what was asked, if any.
Answer(refused, asked, found) ==
  IF refused THEN Response("InvalidRange", {})
  ELSE IF asked = {} THEN Response("Whole", {})
  ELSE IF found = {} THEN Response("NoOverlap", {})
  ELSE Response("Range", found)

ConvertText ==
  Answer(~bytes \/ \E s \in specs : Refused(s, size), specs,
         UNION {ParseSingle(s, size) : s \in specs})

ConvertList ==
  Answer(\E r \in list : ~Given(r.start) /\ ~Given(r.length), list,
         UNION {ParseRange(r, size) : r \in list})

-----------------------------------------------------------------------------
Init ==
  /\ \/ form = "text" /\ bytes \in BOOLEAN /\ specs \in Headers /\ list = {}
     \/ form = "list" /\ bytes = FALSE /\ specs = {} /\ list \in Lists
     \/ form = "empty" /\ bytes = FALSE /\ specs = {} /\ list = {}
  /\ size \in Sizes
  /\ response = Pending

ConvertsText ==
  /\ response = Pending /\ form = "text"
  /\ response' = ConvertText
  /\ UNCHANGED <<form, bytes, specs, list, size>>

ConvertsList ==
  /\ response = Pending /\ form = "list"
  /\ response' = ConvertList
  /\ UNCHANGED <<form, bytes, specs, list, size>>

\* An empty text counts as no text, and there is no list: an exception.
ThrowsOnEmpty ==
  /\ response = Pending /\ form = "empty"
  /\ response' = Response("Thrown", {})
  /\ UNCHANGED <<form, bytes, specs, list, size>>

Next == ConvertsText \/ ConvertsList \/ ThrowsOnEmpty

Spec == Init /\ [][Next]_vars

-----------------------------------------------------------------------------
\* Bytes are numbered from 0.  What a request asks for, said byte by byte:
SpecAsks(s, i) ==
  /\ s.dash
  /\ IF s.first = Blank THEN s.last # Blank /\ i >= size - s.last
     ELSE i >= s.first /\ (s.last = Blank \/ i <= s.last)

Start(r) == IF r.start = Blank THEN 0 ELSE r.start
RangeAsks(r, i) ==
  /\ i >= Start(r)
  /\ r.length # Blank => i < Start(r) + r.length

\* ... and the bytes of a range of the response.
Serves(i) == \E r \in response.ranges : r.start <= i /\ i < r.end

\* Every range of a response lies within the data and none runs backwards.
InData ==
  \A r \in response.ranges : 0 <= r.start /\ r.start <= r.end /\ r.end <= size

\* A Range header that parses is served with the bytes its specs ask for,
\* neither more nor fewer, whatever they leave out, overlap or exceed; with
\* NoOverlap they ask for none.
TextServed ==
  form = "text" /\ response.kind \in {"Range", "NoOverlap"} =>
    \A i \in 0 .. size - 1 : Serves(i) <=> \E s \in specs : SpecAsks(s, i)

\* What parse_range serves beyond that: a range of length 0, which asks for
\* nothing, to the end of the data, as its test for 0 (range.ts:117) stands
\* where 0 never comes.
Overserves(r, i) == r.length = 0 /\ i >= Start(r)

\* A list, which takes another way through the code, is served with the bytes
\* its ranges ask for and those of its ranges of length 0, and refused only
\* for a range that asks for all of the data or for none of it.
ListServed ==
  form = "list" =>
    /\ response.kind \in {"Range", "NoOverlap"} =>
         \A i \in 0 .. size - 1 :
           Serves(i) <=> \E r \in list : RangeAsks(r, i) \/ Overserves(r, i)
    /\ response.kind = "InvalidRange" =>
         \E r \in list : \/ \A i \in 0 .. size - 1 : RangeAsks(r, i)
                         \/ \A i \in 0 .. size - 1 : ~RangeAsks(r, i)

\* MUTANT: an end that is exclusive.
AsSpecExclusive(r) ==
  LET start == IF Given(r.start) THEN r.start ELSE 0
  IN [dash |-> TRUE, first |-> start,
      last |-> IF Given(r.length) THEN start + r.length ELSE Blank]

\* ndn_data_range_to_string: the spec of a range of a list.
AsSpec(r) ==
  LET start == IF Given(r.start) THEN r.start ELSE 0
  IN [dash |-> TRUE, first |-> start,
      last |-> IF Given(r.length) THEN start + r.length - 1 ELSE Blank]

\* A range and its text mean the same to either parser, unless there is no
\* data.  (The range of everything is refused in a list, and its text is not.)
TextOfRangeAgrees ==
  \A r \in list : size > 0 /\ (Given(r.start) \/ Given(r.length)) =>
    ~Refused(AsSpec(r), size) /\ ParseSingle(AsSpec(r), size) = ParseRange(r, size)
=============================================================================
