---------------------------- MODULE MCDataRange ------------------------------
(***************************************************************************)
(* DataRange for TLC: headers and lists of up to two specs or ranges.      *)
(***************************************************************************)
EXTENDS DataRange

Pairs(S) == {{}} \cup {{a, b} : a, b \in S}

MCHeaders == Pairs({s \in Specs : s.dash \/ (s.first = Blank /\ s.last = Blank)})
MCLists   == Pairs(Ranges)
=============================================================================
