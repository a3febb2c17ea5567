---------------------------- MODULE UriTemplate ----------------------------
(***************************************************************************)
(* How resources/read finds the template that a URI belongs to             *)
(* (filters/src/resource_read.rs), and what it means to belong to one.     *)
(*                                                                         *)
(* A URI is a sequence of characters, and so is a template, in which Var   *)
(* stands for a closed pair of braces with the name between them, and Open *)
(* for a brace that is never closed; a closing brace of its own does not   *)
(* occur.                                                                  *)
(***************************************************************************)
EXTENDS Integers, Sequences, SequencesExt

CONSTANTS Var, Open

ASSUME MarkAssumption == Var # Open

\* A part of a template: the text after its i-th character, up to the next variable.
PartAfter(template, i) ==
  LET ends == {j \in i..Len(template) : j = Len(template) \/ template[j + 1] = Var}
  IN SubSeq(template, i + 1, CHOOSE j \in ends : \A k \in ends : j <= k)

\* Mutant: off by one, a part is not found at the very end of the URI.
OccursBefore(part, uri, at) ==
  at + Len(part) < Len(uri) /\ SubSeq(uri, at + 1, at + Len(part)) = part

OccursAt(part, uri, at) == at + Len(part) <= Len(uri) /\ SubSeq(uri, at + 1, at + Len(part)) = part

\* str::find from pos on: the end of the first occurrence of part, or -1.
Find(part, uri, pos) ==
  LET starts == {at \in pos..Len(uri) : OccursAt(part, uri, at)}
  IN IF pos < 0 \/ starts = {} THEN -1
     ELSE (CHOOSE at \in starts : \A other \in starts : at <= other) + Len(part)

\* Where the parts end when each is taken at its first occurrence after the one
\* before it; -1 when one is not found, or when the first one is not a prefix.
EndOfParts(template, uri) ==
  LET end[i \in 0..Len(template)] ==
        [pos \in -1..Len(uri) |->
           LET part  == PartAfter(template, i)
               found == Find(part, uri, pos)
               after == IF part = <<>> THEN pos
                        ELSE IF i = 0 /\ found # Len(part) THEN -1 ELSE found
               next  == i + Len(part) + 1
           IN IF next > Len(template) THEN after ELSE end[next][after]]
  IN end[0][0]

\* Mutant: what comes after the last part is not looked at.
MatchesPrefix(template, uri) ==
  Contains(template, Open) = FALSE /\ EndOfParts(template, uri) >= 0

\* matches_uri_template
MatchesUriTemplate(template, uri) ==
  LET end == EndOfParts(template, uri)
  IN /\ ~Contains(template, Open)
     /\ IF ~Contains(template, Var) THEN template = uri
        ELSE IF Last(template) = Var THEN end >= 0
        ELSE end = Len(uri)

-----------------------------------------------------------------------------
(* Reference.                                                              *)

\* uri is template with each of its variables replaced by some text: the characters
\* of the template cover the URI from left to right.
IsInstance(template, uri) ==
  \E cut \in [0..Len(template) -> 0..Len(uri)] :
    /\ cut[0] = 0 /\ cut[Len(template)] = Len(uri)
    /\ \A i \in 1..Len(template) :
         IF template[i] = Var THEN cut[i - 1] <= cut[i]
         ELSE cut[i] = cut[i - 1] + 1 /\ uri[cut[i]] = template[i]

\* The templates whose instances the greedy search never misses.  The others may lose
\* one, as a{x}b does abb, whose first b is not its last.
Decided(template) ==
  ~Contains(template, Open) /\ (Contains(template, Var) => Last(template) = Var)
=============================================================================
