--------------------------- MODULE DataRangeProofs ---------------------------
(***************************************************************************)
(* The properties of DataRange for all numbers, sizes, headers and lists.  *)
(* Each parser is first shown to be exact for one spec or range.           *)
(***************************************************************************)
EXTENDS DataRange, TLAPS

\* The members of a request and the size of the data.
Inputs ==
  /\ specs \subseteq Specs
  /\ list \subseteq Ranges
  /\ size \in Nat
  /\ form \in {"text", "list", "empty"}

\* What Convert leaves: nothing yet, or the answer to the request.
Answered ==
  \/ response = Pending
  \/ form = "text" /\ response = ConvertText
  \/ form = "list" /\ response = ConvertList
  \/ form = "empty" /\ response = Response("Thrown", {})

RangeInv == Inputs /\ Answered

\* Within the data, and not backwards.
Fits(p, z) == p.start \in Nat /\ p.end \in Nat /\ p.start <= p.end /\ p.end <= z

\* Byte i is in one of the ranges of P.
In(P, i) == \E p \in P : p.start <= i /\ i < p.end

\* Constants are what the module assumes.
LEMMA Constants == Numbers \subseteq Nat /\ Sizes \subseteq Nat /\ Blank \notin Nat
  BY RangeAssumption

\* One range, looked at byte by byte.
LEMMA One ==
  ASSUME NEW start \in Nat, NEW length \in Nat, NEW z \in Nat, start + length <= z
  PROVE  /\ \A p \in {Parsed(start, length)} : Fits(p, z)
         /\ \A i \in Nat : In({Parsed(start, length)}, i) <=> start <= i /\ i < start + length
  BY DEF Parsed, Fits, In

\* "-n" is exact.
LEMMA SuffixExact ==
  ASSUME NEW n \in Nat, NEW z \in Nat
  PROVE  /\ \A p \in Suffix(n, z) : Fits(p, z)
         /\ \A i \in 0 .. z - 1 : In(Suffix(n, z), i) <=> i >= z - n
<1>1. CASE n = 0
  BY <1>1 DEF Suffix, In
<1>2. CASE n # 0
  <2> DEFINE length == Least(n, z)
             start  == z - length
  <2>1. length \in Nat /\ start \in Nat /\ start + length = z
        /\ (length = n \/ (length = z /\ z <= n))
    BY DEF Least
  <2>2. Suffix(n, z) = {Parsed(start, length)}
    BY <1>2 DEF Suffix
  <2> HIDE DEF start, length
  <2>3. /\ \A p \in Suffix(n, z) : Fits(p, z)
        /\ \A i \in Nat : In(Suffix(n, z), i) <=> start <= i /\ i < start + length
    BY <2>1, <2>2, One
  <2>4. ASSUME NEW i \in 0 .. z - 1 PROVE In(Suffix(n, z), i) <=> i >= z - n
    <3>1. start = z - n \/ (start = 0 /\ z - n <= 0)
      BY <2>1
    <3> QED
      BY <2>1, <2>3, <3>1
  <2> QED
    BY <2>3, <2>4
<1> QED
  BY <1>1, <1>2

\* "a-" and "a-b" are exact.
LEMMA FromExact ==
  ASSUME NEW a \in Nat, NEW b \in Nat \cup {Blank}, NEW z \in Nat,
         a < z /\ b # Blank => a <= b
  PROVE  /\ \A p \in From(a, b, z) : Fits(p, z)
         /\ \A i \in 0 .. z - 1 : In(From(a, b, z), i) <=> i >= a /\ (b = Blank \/ i <= b)
<1>1. CASE a >= z
  BY <1>1 DEF From, In
<1>2. CASE a < z /\ b = Blank
  <2>1. From(a, b, z) = {Parsed(a, z - a)} /\ z - a \in Nat
    BY <1>2 DEF From
  <2> QED
    BY <1>2, <2>1, One
<1>3. CASE a < z /\ b # Blank
  <2> DEFINE length == Least(b, z - 1) - a + 1
  <2>1. b \in Nat /\ a <= b
    BY <1>3
  <2>2. From(a, b, z) = {Parsed(a, length)}
    BY <1>3 DEF From
  <2>3. length \in Nat /\ a + length <= z
        /\ \A i \in 0 .. z - 1 : i < a + length <=> i <= b
    BY <1>3, <2>1 DEF Least
  <2> HIDE DEF length
  <2>4. /\ \A p \in From(a, b, z) : Fits(p, z)
        /\ \A i \in Nat : In(From(a, b, z), i) <=> a <= i /\ i < a + length
    BY <2>2, <2>3, One
  <2>5. ASSUME NEW i \in 0 .. z - 1
        PROVE  In(From(a, b, z), i) <=> i >= a /\ (b = Blank \/ i <= b)
    <3>1. i \in Nat
      OBVIOUS
    <3>2. i < a + length <=> i <= b
      BY <2>3
    <3> QED
      BY <1>3, <2>4, <3>1, <3>2
  <2> QED
    BY <2>4, <2>5
<1> QED
  BY <1>1, <1>2, <1>3

\* parse_single_range returns at most one range, within the data.
LEMMA SingleFits ==
  ASSUME NEW s \in Specs, NEW z \in Nat, ~Refused(s, z)
  PROVE  \A p \in ParseSingle(s, z) : Fits(p, z)
<1>1. s.first \in Nat \cup {Blank} /\ s.last \in Nat \cup {Blank}
  BY Constants DEF Specs, MaybeNumbers
<1>2. CASE s.first = Blank
  BY <1>1, <1>2, SuffixExact DEF Refused, ParseSingle
<1>3. CASE s.first # Blank
  <2>1. s.first < z /\ s.last # Blank => s.first <= s.last
    BY <1>1, <1>3 DEF Refused
  <2>2. \A p \in From(s.first, s.last, z) : Fits(p, z)
    BY <1>1, <1>3, <2>1, FromExact
  <2> QED
    BY <1>3, <2>2 DEF ParseSingle
<1> QED
  BY <1>2, <1>3

\* parse_single_range finds exactly the bytes its spec asks for.
LEMMA SingleExact ==
  ASSUME NEW s \in Specs, size \in Nat, ~Refused(s, size), NEW i \in 0 .. size - 1
  PROVE  In(ParseSingle(s, size), i) <=> SpecAsks(s, i)
<1>1. s.first \in Nat \cup {Blank} /\ s.last \in Nat \cup {Blank} /\ s.dash
  BY Constants DEF Specs, MaybeNumbers, Refused
<1>2. CASE s.first = Blank
  BY <1>1, <1>2, SuffixExact DEF Refused, ParseSingle, SpecAsks
<1>3. CASE s.first # Blank
  <2>1. s.first < size /\ s.last # Blank => s.first <= s.last
    BY <1>1, <1>3 DEF Refused
  <2>2. In(From(s.first, s.last, size), i) <=> i >= s.first /\ (s.last = Blank \/ i <= s.last)
    BY <1>1, <1>3, <2>1, FromExact
  <2> QED
    BY <1>1, <1>3, <2>2 DEF ParseSingle, SpecAsks
<1> QED
  BY <1>2, <1>3

\* parse_range returns at most one range, within the data, and that range is
\* exact, but for those of length 0.
LEMMA RangeExact ==
  ASSUME NEW r \in Ranges, NEW z \in Nat
  PROVE  /\ \A p \in ParseRange(r, z) : Fits(p, z)
         /\ \A i \in 0 .. z - 1 : In(ParseRange(r, z), i) <=> RangeAsks(r, i) \/ Overserves(r, i)
<1> DEFINE start == IF Given(r.start) THEN r.start ELSE 0
<1>1. r.start \in Nat \cup {Blank} /\ r.length \in Nat \cup {Blank}
  BY Constants DEF Ranges, MaybeNumbers
<1>2. start \in Nat /\ (Given(r.start) => start = r.start) /\ (~Given(r.start) => start = 0)
  BY <1>1 DEF Given
<1>3. \A i \in Nat : RangeAsks(r, i) \/ Overserves(r, i) <=>
        i >= start /\ (Given(r.length) => i < start + r.length)
  <2>1. Start(r) = start
    BY <1>1 DEF Start, Given
  <2> HIDE DEF start
  <2>2. r.length = Blank => r.length # 0
    BY Constants
  <2>3. ASSUME NEW i \in Nat, r.length = 0
        PROVE  RangeAsks(r, i) \/ Overserves(r, i) <=>
                 i >= start /\ (Given(r.length) => i < start + r.length)
    BY <1>2, <2>1, <2>3 DEF RangeAsks, Overserves, Given
  <2>4. ASSUME NEW i \in Nat, r.length # 0
        PROVE  RangeAsks(r, i) \/ Overserves(r, i) <=>
                 i >= start /\ (Given(r.length) => i < start + r.length)
    BY <1>2, <2>1, <2>4 DEF RangeAsks, Overserves, Given
  <2> QED
    BY <2>3, <2>4
<1>4. CASE Given(r.start) /\ start >= z
  <2>1. ParseRange(r, z) = {}
    BY <1>4 DEF ParseRange
  <2> QED
    BY <1>2, <1>3, <1>4, <2>1 DEF In
<1>5. CASE ~(Given(r.start) /\ start >= z) /\ Given(r.length)
  <2> DEFINE length == Least(r.length, z - start)
  <2>1. start <= z /\ r.length \in Nat
    BY <1>1, <1>2, <1>5 DEF Given
  <2>2. ParseRange(r, z) = {Parsed(start, length)}
    BY <1>5 DEF ParseRange
  <2>3. length \in Nat /\ start + length <= z
        /\ \A i \in 0 .. z - 1 : i < start + length <=> i < start + r.length
    BY <1>2, <2>1 DEF Least
  <2> HIDE DEF length, start
  <2>4. /\ \A p \in ParseRange(r, z) : Fits(p, z)
        /\ \A i \in Nat : In(ParseRange(r, z), i) <=> start <= i /\ i < start + length
    BY <1>2, <2>2, <2>3, One
  <2>5. ASSUME NEW i \in 0 .. z - 1 PROVE In(ParseRange(r, z), i) <=> RangeAsks(r, i) \/ Overserves(r, i)
    <3>1. i \in Nat /\ (i < start + length <=> i < start + r.length)
      BY <2>3
    <3> QED
      BY <1>2, <1>3, <1>5, <2>4, <3>1
  <2> QED
    BY <2>4, <2>5
<1>6. CASE ~(Given(r.start) /\ start >= z) /\ ~Given(r.length)
  <2>1. start <= z /\ z - start \in Nat
    BY <1>1, <1>2, <1>6 DEF Given
  <2>2. ParseRange(r, z) = {Parsed(start, z - start)}
    BY <1>6 DEF ParseRange
  <2> HIDE DEF start
  <2>3. /\ \A p \in ParseRange(r, z) : Fits(p, z)
        /\ \A i \in Nat : In(ParseRange(r, z), i) <=> start <= i /\ i < start + (z - start)
    <3>1. start \in Nat /\ start + (z - start) <= z
      BY <1>2, <2>1
    <3> DEFINE length == z - start
    <3> HIDE DEF length
    <3>2. length \in Nat /\ start + length <= z
      BY <2>1, <3>1 DEF length
    <3>3. /\ \A p \in {Parsed(start, length)} : Fits(p, z)
          /\ \A i \in Nat : In({Parsed(start, length)}, i) <=> start <= i /\ i < start + length
      BY <3>1, <3>2, One
    <3> QED
      BY <2>2, <3>3 DEF length
  <2>4. ASSUME NEW i \in 0 .. z - 1
        PROVE  In(ParseRange(r, z), i) <=> RangeAsks(r, i) \/ Overserves(r, i)
    <3>1. i \in Nat /\ i < start + (z - start)
      BY <1>2
    <3>2. In(ParseRange(r, z), i) <=> i >= start
      BY <1>2, <2>3, <3>1
    <3>3. RangeAsks(r, i) \/ Overserves(r, i) <=> i >= start
      BY <1>3, <1>6, <3>1
    <3> QED
      BY <3>2, <3>3
  <2> QED
    BY <2>3, <2>4
<1> QED
  BY <1>4, <1>5, <1>6

\* The specification never leaves the invariant.
LEMMA RangeInvAlways == Spec => []RangeInv
<1>1. Init => RangeInv
  BY RangeAssumption DEF Init, RangeInv, Inputs, Answered
<1>2. RangeInv /\ [Next]_vars => RangeInv'
  <2> SUFFICES ASSUME RangeInv, [Next]_vars PROVE RangeInv'
    OBVIOUS
  <2>1. UNCHANGED <<form, bytes, specs, list, size>>
    BY DEF Next, ConvertsText, ConvertsList, ThrowsOnEmpty, vars
  <2>2. Inputs'
    BY <2>1 DEF RangeInv, Inputs
  <2>3. ConvertText' = ConvertText /\ ConvertList' = ConvertList
    BY <2>1 DEF ConvertText, ConvertList
  <2>4. Answered'
    <3>1. CASE ConvertsText
      BY <2>1, <2>3, <3>1 DEF ConvertsText, Answered
    <3>2. CASE ConvertsList
      BY <2>1, <2>3, <3>2 DEF ConvertsList, Answered
    <3>4. CASE ThrowsOnEmpty
      BY <2>1, <3>4 DEF ThrowsOnEmpty, Answered
    <3>3. CASE UNCHANGED vars
      <4>1. response' = response /\ form' = form
        BY <3>3 DEF vars
      <4> QED
        BY <2>3, <4>1 DEF RangeInv, Answered
    <3> QED
      BY <3>1, <3>2, <3>3, <3>4 DEF Next
  <2> QED
    BY <2>2, <2>4 DEF RangeInv
<1> QED
  BY <1>1, <1>2, PTL DEF Spec

\* Text: what the response holds.
LEMMA TextFound ==
  ASSUME RangeInv, form = "text", response # Pending
  PROVE  /\ response.ranges = {} \/
            ( /\ response.ranges = UNION {ParseSingle(s, size) : s \in specs}
              /\ \A s \in specs : ~Refused(s, size) )
         /\ response.kind \in {"Range", "NoOverlap"} =>
              /\ response.ranges = UNION {ParseSingle(s, size) : s \in specs}
              /\ \A s \in specs : ~Refused(s, size)
<1> DEFINE refused == ~bytes \/ \E s \in specs : Refused(s, size)
<1> DEFINE found == UNION {ParseSingle(s, size) : s \in specs}
<1>1. response = Answer(refused, specs, found)
  BY DEF RangeInv, Answered, ConvertText
<1>2. refused \in BOOLEAN
  OBVIOUS
<1> HIDE DEF refused, found
<1>3. /\ response.ranges = {} \/ (response.ranges = found /\ ~refused)
      /\ response.kind \in {"Range", "NoOverlap"} => response.ranges = found /\ ~refused
  BY <1>1, <1>2 DEF Answer, Response
<1>4. ~refused => \A s \in specs : ~Refused(s, size)
  BY DEF refused
<1> QED
  BY <1>3, <1>4 DEF found

\* List: what the response holds.
LEMMA ListFound ==
  ASSUME RangeInv, form = "list", response # Pending
  PROVE  /\ response.ranges \in {{}, UNION {ParseRange(r, size) : r \in list}}
         /\ response.kind \in {"Range", "NoOverlap"} =>
              response.ranges = UNION {ParseRange(r, size) : r \in list}
         /\ response.kind = "InvalidRange" =>
              \E r \in list : ~Given(r.start) /\ ~Given(r.length)
<1> DEFINE refused == \E r \in list : ~Given(r.start) /\ ~Given(r.length)
<1> DEFINE found == UNION {ParseRange(r, size) : r \in list}
<1>1. response = Answer(refused, list, found)
  BY DEF RangeInv, Answered, ConvertList
<1>2. refused \in BOOLEAN
  OBVIOUS
<1> HIDE DEF refused, found
<1>3. /\ response.ranges \in {{}, found}
      /\ response.kind \in {"Range", "NoOverlap"} => response.ranges = found
      /\ response.kind = "InvalidRange" => refused
  BY <1>1, <1>2 DEF Answer, Response
<1> QED
  BY <1>3 DEF found, refused

\* Whatever is asked for, the ranges of a response lie within the data.
THEOREM InDataAlways == Spec => []InData
<1>1. RangeInv => InData
  <2> SUFFICES ASSUME RangeInv, NEW p \in response.ranges
               PROVE  0 <= p.start /\ p.start <= p.end /\ p.end <= size
    BY DEF InData
  <2>1. response # Pending
    BY DEF Pending, Response
  <2>2. size \in Nat /\ specs \subseteq Specs /\ list \subseteq Ranges
    BY DEF RangeInv, Inputs
  <2>3. CASE form = "text"
    <3>1. PICK s \in specs : p \in ParseSingle(s, size) /\ ~Refused(s, size)
      BY <2>1, <2>3, TextFound
    <3> QED
      BY <2>2, <3>1, SingleFits DEF Fits
  <2>4. CASE form = "list"
    <3>1. PICK r \in list : p \in ParseRange(r, size)
      BY <2>1, <2>4, ListFound
    <3> QED
      BY <2>2, <3>1, RangeExact DEF Fits
  <2>5. CASE form = "empty"
    BY <2>1, <2>5 DEF RangeInv, Answered, Response
  <2> QED
    BY <2>3, <2>4, <2>5 DEF RangeInv, Inputs
<1> QED
  BY <1>1, RangeInvAlways, PTL

\* A Range header that parses is served with the bytes it asks for.
THEOREM TextServedAlways == Spec => []TextServed
<1>1. RangeInv => TextServed
  <2> SUFFICES ASSUME RangeInv, form = "text", response.kind \in {"Range", "NoOverlap"},
                      NEW i \in 0 .. size - 1
               PROVE  Serves(i) <=> \E s \in specs : SpecAsks(s, i)
    BY DEF TextServed
  <2>1. response # Pending
    BY DEF Pending, Response
  <2>2. size \in Nat /\ specs \subseteq Specs
    BY DEF RangeInv, Inputs
  <2>3. /\ response.ranges = UNION {ParseSingle(s, size) : s \in specs}
        /\ \A s \in specs : ~Refused(s, size)
    BY <2>1, TextFound
  <2>4. Serves(i) <=> \E s \in specs : In(ParseSingle(s, size), i)
    BY <2>3 DEF Serves, In
  <2>5. \A s \in specs : In(ParseSingle(s, size), i) <=> SpecAsks(s, i)
    BY <2>2, <2>3, SingleExact
  <2> QED
    BY <2>4, <2>5
<1> QED
  BY <1>1, RangeInvAlways, PTL

\* A list is served with the bytes its ranges ask for, a range of length 0 to
\* the end of the data, and refused only for a range that asks for all or none.
THEOREM ListServedAlways == Spec => []ListServed
<1>1. RangeInv => ListServed
  <2> SUFFICES ASSUME RangeInv, form = "list" PROVE ListServed
    BY DEF ListServed
  <2>1. size \in Nat /\ list \subseteq Ranges
    BY DEF RangeInv, Inputs
  <2>2. ASSUME response.kind \in {"Range", "NoOverlap"}, NEW i \in 0 .. size - 1
        PROVE  Serves(i) <=> \E r \in list : RangeAsks(r, i) \/ Overserves(r, i)
    <3>1. response # Pending
      BY <2>2 DEF Pending, Response
    <3>2. response.ranges = UNION {ParseRange(r, size) : r \in list}
      BY <2>2, <3>1, ListFound
    <3>3. Serves(i) <=> \E r \in list : In(ParseRange(r, size), i)
      BY <3>2 DEF Serves, In
    <3>4. \A r \in list : In(ParseRange(r, size), i) <=> RangeAsks(r, i) \/ Overserves(r, i)
      BY <2>1, <2>2, RangeExact
    <3> QED
      BY <3>3, <3>4
  <2>3. ASSUME response.kind = "InvalidRange"
        PROVE  \E r \in list : \/ \A i \in 0 .. size - 1 : RangeAsks(r, i)
                               \/ \A i \in 0 .. size - 1 : ~RangeAsks(r, i)
    <3>1. response # Pending
      BY <2>3 DEF Pending, Response
    <3>2. PICK r \in list : ~Given(r.start) /\ ~Given(r.length)
      BY <2>3, <3>1, ListFound
    <3>3. Start(r) = 0 /\ (r.length = Blank \/ r.length = 0) /\ Blank # 0
      BY <3>2, Constants DEF Given, Start
    <3>4. CASE r.length = Blank
      <4>1. \A i \in 0 .. size - 1 : RangeAsks(r, i)
        BY <3>3, <3>4 DEF RangeAsks
      <4> QED
        BY <4>1
    <3>5. CASE r.length = 0
      <4>1. \A i \in 0 .. size - 1 : ~RangeAsks(r, i)
        BY <3>3, <3>5 DEF RangeAsks
      <4> QED
        BY <4>1
    <3> QED
      BY <3>3, <3>4, <3>5
  <2> QED
    BY <2>2, <2>3 DEF ListServed
<1> QED
  BY <1>1, RangeInvAlways, PTL

\* A range and its text mean the same to either parser.
THEOREM TextOfRangeAgreesAlways == Spec => []TextOfRangeAgrees
<1>1. RangeInv => TextOfRangeAgrees
  <2> SUFFICES ASSUME RangeInv, NEW r \in list, size > 0, Given(r.start) \/ Given(r.length)
               PROVE  /\ ~Refused(AsSpec(r), size)
                      /\ ParseSingle(AsSpec(r), size) = ParseRange(r, size)
    BY DEF TextOfRangeAgrees
  <2>1. size \in Nat /\ r.start \in Nat \cup {Blank} /\ r.length \in Nat \cup {Blank}
    BY RangeAssumption DEF RangeInv, Inputs, Ranges, MaybeNumbers
  <2> DEFINE start == IF Given(r.start) THEN r.start ELSE 0
  <2>2. start \in Nat /\ start # Blank
    BY <2>1, RangeAssumption DEF Given
  <2>3. CASE Given(r.length)
    <3>1. /\ r.length \in Nat \ {0} /\ AsSpec(r).dash
          /\ AsSpec(r).first = start /\ AsSpec(r).last = start + r.length - 1
      BY <2>1, <2>3 DEF AsSpec, Given
    <3>2. AsSpec(r).last \in Nat /\ AsSpec(r).last # Blank /\ start <= AsSpec(r).last
      BY <2>2, <3>1, RangeAssumption
    <3>3. ~Refused(AsSpec(r), size)
      BY <2>1, <2>2, <3>1, <3>2 DEF Refused
    <3>4. CASE start >= size
      <4>1. Given(r.start)
        BY <2>1, <3>4
      <4>2. ParseRange(r, size) = {}
        BY <3>4, <4>1 DEF ParseRange
      <4>3. ParseSingle(AsSpec(r), size) = {}
        BY <2>2, <3>1, <3>4 DEF ParseSingle, From
      <4> QED
        BY <3>3, <4>2, <4>3
    <3>5. CASE ~(start >= size)
      <4>1. ParseRange(r, size) = {Parsed(start, Least(r.length, size - start))}
        BY <2>3, <3>5 DEF ParseRange
      <4>2. ParseSingle(AsSpec(r), size) = {Parsed(start, Least(AsSpec(r).last, size - 1) - start + 1)}
        BY <2>2, <3>1, <3>2, <3>5 DEF ParseSingle, From
      <4>3. Least(r.length, size - start) = Least(AsSpec(r).last, size - 1) - start + 1
        BY <2>1, <2>2, <3>1, <3>5 DEF Least
      <4> QED
        BY <3>3, <4>1, <4>2, <4>3
    <3> QED
      BY <3>4, <3>5
  <2>4. CASE ~Given(r.length)
    <3>1. AsSpec(r).dash /\ AsSpec(r).first = start /\ AsSpec(r).last = Blank /\ Given(r.start)
      BY <2>4 DEF AsSpec
    <3>2. ~Refused(AsSpec(r), size)
      BY <2>2, <3>1 DEF Refused
    <3> QED
      BY <2>2, <2>4, <3>1, <3>2 DEF ParseSingle, From, ParseRange
  <2> QED
    BY <2>3, <2>4
<1> QED
  BY <1>1, RangeInvAlways, PTL
=============================================================================
