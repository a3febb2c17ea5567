------------------------ MODULE Upstream_refinement ------------------------
(***************************************************************************)
(* The client of upstream servers implements UpstreamAnswers, for any      *)
(* servers, pages and limits: a list is answered in full up to its limits, *)
(* or not at all; the lists of a discovery end at a page.                  *)
(***************************************************************************)
EXTENDS Upstream_proofs, NumberFacts

Sequence == Seq(Entry)
Rows     == [Cursors -> Sequence]
Walk(k)  == Abstract!Entries(k)

(* What follows the page at c when `below` is what n - 1 pages have.       *)
Rest(k, c, below) == IF catalog[k][c].next \in Cursors THEN below[catalog[k][c].next] ELSE <<>>
Row(k, below, n)  ==
  [c \in Cursors |-> IF n = 0 THEN <<>> ELSE catalog[k][c].entries \o Rest(k, c, below)]
-----------------------------------------------------------------------------
(* The recursive definition of the entries of n pages is well founded.     *)

LEMMA PageType ==
  ASSUME Typed, NEW k \in Kinds, NEW c \in Cursors
  PROVE  catalog[k][c].entries \in Sequence /\ catalog[k][c].next \in Cursors \cup {Empty, None}
<1>1. catalog[k][c] \in Page
  BY DEF Typed, TypeOK
<1>2. QED
  BY <1>1 DEF Page, Sequence

LEMMA RestType ==
  ASSUME Typed, NEW k \in Kinds, NEW c \in Cursors, NEW below \in Rows
  PROVE  Rest(k, c, below) \in Sequence
  BY EmptySeq DEF Rest, Rows, Sequence

LEMMA RowType ==
  ASSUME Typed, NEW k \in Kinds, NEW below \in Rows, NEW n \in Nat
  PROVE  Row(k, below, n) \in Rows
<1>1. ASSUME NEW c \in Cursors
      PROVE  catalog[k][c].entries \o Rest(k, c, below) \in Sequence
  BY PageType, RestType, ConcatProperties DEF Sequence
<1>2. <<>> \in Sequence
  BY EmptySeq DEF Sequence
<1>3. QED
  BY <1>1, <1>2 DEF Row, Rows

LEMMA RowZero ==
  ASSUME NEW k \in Kinds, NEW below, NEW other
  PROVE  Row(k, below, 0) = Row(k, other, 0)
  BY DEF Row

Upto(k, m) == {g \in [0..m -> Rows] : \A n \in 0..m : g[n] = Row(k, g[n - 1], n)}

LEMMA UptoZero ==
  ASSUME Typed, NEW k \in Kinds
  PROVE  Upto(k, 0) # {}
<1> DEFINE none == [c \in Cursors |-> <<>>]
           g == [n \in 0..0 |-> Row(k, none, n)]
<1>1. none \in Rows
  BY EmptySeq DEF Rows, Sequence
<1>2. g \in [0..0 -> Rows]
  BY <1>1, RowType
<1>3. \A n \in 0..0 : g[n] = Row(k, g[n - 1], n)
  BY RowZero
<1> HIDE DEF g
<1>4. QED
  BY <1>2, <1>3 DEF Upto

LEMMA UptoNext ==
  ASSUME Typed, NEW k \in Kinds, NEW m \in Nat, Upto(k, m) # {}
  PROVE  Upto(k, m + 1) # {}
<1>1. PICK g \in [0..m -> Rows] : \A n \in 0..m : g[n] = Row(k, g[n - 1], n)
  BY DEF Upto
<1> DEFINE h == [n \in 0..(m + 1) |-> IF n <= m THEN g[n] ELSE Row(k, g[m], n)]
<1>2. Row(k, g[m], m + 1) \in Rows
  <2>1. g[m] \in Rows
    BY <1>1
  <2>2. QED
    BY <2>1, RowType
<1>3. h \in [0..(m + 1) -> Rows]
  BY <1>1, <1>2
<1>4. ASSUME NEW n \in 0..(m + 1)
      PROVE  h[n] = Row(k, h[n - 1], n)
  <2>1. CASE n = 0
    <3>1. h[0] = g[0] /\ g[0] = Row(k, g[0 - 1], 0)
      BY <1>1
    <3>2. QED
      BY <2>1, <3>1, RowZero
  <2>2. CASE n \in 1..m
    <3>1. n - 1 \in 0..(m + 1) /\ n - 1 <= m /\ n \in 0..m
      BY <2>2
    <3>2. QED
      BY <1>1, <3>1
  <2>3. CASE n = m + 1
    <3>1. n - 1 = m /\ m \in 0..(m + 1)
      BY <2>3
    <3>2. QED
      BY <2>3, <3>1
  <2>4. QED
    BY <2>1, <2>2, <2>3
<1> HIDE DEF h
<1>5. QED
  BY <1>3, <1>4 DEF Upto

LEMMA UptoAll ==
  ASSUME Typed, NEW k \in Kinds
  PROVE  Upto(k, MaxPages) # {}
<1> DEFINE P == {n \in Nat : Upto(k, n) # {}}
<1>1. MaxPages \in Nat
  BY LimitAssumption
<1>2. 0 \in P /\ \A n \in 0..MaxPages : n \in P /\ n < MaxPages => n + 1 \in P
  BY UptoZero, UptoNext
<1>3. 0..MaxPages \subseteq P
  <2> HIDE DEF P
  <2>1. QED
    BY <1>1, <1>2, Induction
<1>4. QED
  BY <1>1, <1>3

LEMMA WalkIsRow ==
  ASSUME Typed, NEW k \in Kinds
  PROVE  Walk(k) = [n \in 0..MaxPages |-> Row(k, Walk(k)[n - 1], n)]
<1>1. PICK g \in [0..MaxPages -> Rows] : \A n \in 0..MaxPages : g[n] = Row(k, g[n - 1], n)
  BY UptoAll DEF Upto
<1>2. DOMAIN catalog[k] = Cursors
  BY DEF Typed, TypeOK
<1>3. g = [n \in 0..MaxPages |-> Row(k, g[n - 1], n)]
  BY <1>1
<1>4. g = [n \in 0..MaxPages |->
             [c \in DOMAIN catalog[k] |->
                IF n = 0 THEN <<>>
                ELSE catalog[k][c].entries \o (IF catalog[k][c].next \in DOMAIN catalog[k]
                                               THEN g[n - 1][catalog[k][c].next] ELSE <<>>)]]
  BY <1>2, <1>3 DEF Row, Rest
<1>5. Walk(k) = [n \in 0..MaxPages |->
             [c \in DOMAIN catalog[k] |->
                IF n = 0 THEN <<>>
                ELSE catalog[k][c].entries \o (IF catalog[k][c].next \in DOMAIN catalog[k]
                                               THEN Walk(k)[n - 1][catalog[k][c].next] ELSE <<>>)]]
  BY <1>4, Zenon DEF Walk, Abstract!Entries
<1>6. QED
  BY <1>2, <1>5 DEF Row, Rest

LEMMA WalkType ==
  ASSUME Typed, NEW k \in Kinds
  PROVE  Walk(k) \in [0..MaxPages -> Rows]
<1> DEFINE P == {n \in 0..MaxPages : Walk(k)[n] \in Rows}
<1>1. MaxPages \in Nat
  BY LimitAssumption
<1>2. \A n \in 0..MaxPages : Walk(k)[n] = Row(k, Walk(k)[n - 1], n)
  BY WalkIsRow
<1>3. 0 \in P
  <2>1. [c \in Cursors |-> <<>>] \in Rows
    BY EmptySeq DEF Rows, Sequence
  <2>2. Walk(k)[0] = Row(k, [c \in Cursors |-> <<>>], 0)
    BY <1>1, <1>2, RowZero
  <2>3. QED
    BY <1>1, <2>1, <2>2, RowType
<1>4. ASSUME NEW n \in 0..MaxPages, n \in P, n < MaxPages
      PROVE  n + 1 \in P
  <2>1. n + 1 \in 0..MaxPages /\ (n + 1) - 1 = n
    BY <1>1, <1>4
  <2>2. Walk(k)[n + 1] = Row(k, Walk(k)[n], n + 1)
    BY <1>2, <2>1
  <2>3. Walk(k)[n] \in Rows
    BY <1>4
  <2>4. QED
    BY <2>1, <2>2, <2>3, RowType
<1>5. 0..MaxPages \subseteq P
  <2> HIDE DEF P
  <2>1. QED
    BY <1>1, <1>3, <1>4, Induction
<1>6. QED
  BY <1>5, WalkIsRow

(* The entries of no page, and of n pages.                                 *)
LEMMA WalkIs ==
  ASSUME Typed, NEW k \in Kinds, NEW c \in Cursors
  PROVE  /\ \A n \in 0..MaxPages : Walk(k)[n][c] \in Sequence
         /\ Walk(k)[0][c] = <<>>
         /\ \A n \in 1..MaxPages :
              Walk(k)[n][c] = catalog[k][c].entries \o Rest(k, c, Walk(k)[n - 1])
<1>1. MaxPages \in Nat /\ 0 \in 0..MaxPages /\ \A n \in 1..MaxPages : n \in 0..MaxPages /\ n # 0
  BY LimitAssumption
<1>2. \A n \in 0..MaxPages : Walk(k)[n] = Row(k, Walk(k)[n - 1], n)
  BY WalkIsRow
<1>3. \A n \in 0..MaxPages : Walk(k)[n][c] \in Sequence
  BY WalkType DEF Rows
<1>4. Walk(k)[0][c] = <<>>
  <2>1. Walk(k)[0] = Row(k, Walk(k)[0 - 1], 0)
    BY <1>1, <1>2
  <2>2. QED
    BY <2>1 DEF Row
<1>5. ASSUME NEW n \in 1..MaxPages
      PROVE  Walk(k)[n][c] = catalog[k][c].entries \o Rest(k, c, Walk(k)[n - 1])
  <2>1. Walk(k)[n] = Row(k, Walk(k)[n - 1], n) /\ n # 0
    BY <1>1, <1>2
  <2>2. QED
    BY <2>1 DEF Row
<1>6. QED
  BY <1>3, <1>4, <1>5
-----------------------------------------------------------------------------
(* A list cut at its limit.                                                *)

LEMMA UpToShort ==
  ASSUME NEW s \in Sequence, NEW n \in Nat, Len(s) <= n
  PROVE  Abstract!UpTo(s, n) = s
<1>1. Len(s) \in Nat /\ SubSeq(s, 1, Len(s)) = s
  <2>1. Len(s) \in Nat
    BY LenProperties DEF Sequence
  <2>2. SubSeq(s, 1, Len(s)) = s
    BY SubSeqFull DEF Sequence
  <2>3. QED
    BY <2>1, <2>2
<1>2. (IF Len(s) < n THEN Len(s) ELSE n) = Len(s)
  <2>1. Len(s) < n \/ Len(s) = n
    <3>1. \A i \in Nat : i <= n => i < n \/ i = n
      OBVIOUS
    <3>2. QED
      BY <1>1, <3>1
  <2>2. CASE Len(s) < n
    BY <2>2
  <2>3. CASE Len(s) = n
    BY <1>1, <2>3
  <2>4. QED
    BY <2>1, <2>2, <2>3
<1>3. Abstract!UpTo(s, n) = SubSeq(s, 1, Len(s))
  BY <1>2 DEF Abstract!UpTo
<1>4. QED
  BY <1>1, <1>3

LEMMA UpToLong ==
  ASSUME NEW s \in Sequence, NEW t \in Sequence, NEW n \in Nat \ {0}, Len(s) >= n
  PROVE  Abstract!UpTo(s \o t, n) = SubSeq(s, 1, n)
<1>1. Len(s) \in Nat /\ Len(t) \in Nat /\ Len(s \o t) = Len(s) + Len(t)
  BY LenProperties, ConcatProperties DEF Sequence
<1>2. (IF Len(s \o t) < n THEN Len(s \o t) ELSE n) = n
  BY <1>1
<1>3. 1 \in 1..n /\ n \in 1..Len(s)
  BY <1>1
<1>4. SubSeq(s \o t, 1, n) = SubSeq(s, 1, n)
  <2> DEFINE u == SubSeq(s \o t, 1, n)
             v == SubSeq(s, 1, n)
  <2>1. \A i \in 1..n : (s \o t)[i] = s[i] /\ s[i] \in Entry
    BY <1>1, <1>3, ConcatProperties, ElementOfSeq DEF Sequence
  <2>2. /\ u \in Seq(Entry) /\ Len(u) = n /\ \A i \in 1..n : u[i] = (s \o t)[i]
        /\ v \in Seq(Entry) /\ Len(v) = n /\ \A i \in 1..n : v[i] = s[i]
    BY <2>1, SubSeqProperties
  <2>3. QED
    BY <2>1, <2>2, SeqEqual
<1>5. QED
  BY <1>2, <1>4 DEF Abstract!UpTo

-----------------------------------------------------------------------------
(* What the lists of an operation are while it runs.                       *)

Rank == [k \in Kinds |-> CASE k = "tools" -> 1 [] k = "resources" -> 2
                           [] k = "templates" -> 3 [] k = "prompts" -> 4]

(* The list under way and the pages that are left make up all the entries. *)
Going(o, k) ==
  /\ op[o].pages < MaxPages /\ Len(op[o].lists[k]) < MaxEntries
  /\ \A n \in 0..(MaxPages - op[o].pages) :
       op[o].lists[k] \o Walk(k)[n][op[o].cursor] = Walk(k)[op[o].pages + n][First]

Ended(o, k) ==
  /\ op[o].lists[k] \in Abstract!Partial(k)
  /\ k \notin failed[o] => op[o].lists[k] = Abstract!Whole(k)

(* A discovery has ended with the kinds before k.                          *)
Earlier(o, k, j) == op[o].what = Discovery /\ Rank[j] < Rank[k]
Prepared(o, k) ==
  \A j \in Kinds \ {k} : IF Earlier(o, k, j) THEN Ended(o, j) ELSE op[o].lists[j] = <<>>

Given(o) ==
  \A j \in Kinds :
    IF j \notin Lists[op[o].what] THEN op[o].lists[j] = <<>>
    ELSE Ended(o, j) /\ (op[o].what # Discovery => op[o].lists[j] = Abstract!Whole(j))

Progress(o) ==
  /\ op[o].pc = "idle" <=> op[o].what = None
  /\ op[o].pc \in {"idle", "connecting", "calling"} => op[o].lists = NoLists
  /\ op[o].pc = "calling" => op[o].what \in Calls
  /\ op[o].pc = "paging" => /\ op[o].kind \in Lists[op[o].what]
                            /\ Going(o, op[o].kind) /\ Prepared(o, op[o].kind)
  /\ op[o].pc = "between" => /\ op[o].what = Discovery
                             /\ Ended(o, op[o].kind) /\ Prepared(o, op[o].kind)
  /\ op[o].pc = "done" => IF op[o].ok THEN Given(o) ELSE op[o].lists = NoLists

ProgressInv == \A o \in Operations : Progress(o)

Known == Typed /\ OnceInv /\ ProgressInv

LEMMA WholeIsPartial == ASSUME NEW k \in Kinds PROVE Abstract!Whole(k) \in Abstract!Partial(k)
  BY LimitAssumption DEF Abstract!Whole, Abstract!Partial

LEMMA RankIs ==
  /\ Rank \in [Kinds -> 1..4]
  /\ Rank["tools"] = 1 /\ Rank["resources"] = 2 /\ Rank["templates"] = 3 /\ Rank["prompts"] = 4
  BY KindAssumption DEF Rank

(* While the catalog stays as it is, so does what a list may be.           *)
LEMMA CatalogSame ==
  ASSUME catalog' = catalog, NEW k \in Kinds
  PROVE  /\ Walk(k)' = Walk(k)
         /\ Abstract!Whole(k)' = Abstract!Whole(k)
         /\ Abstract!Partial(k)' = Abstract!Partial(k)
<1>1. Walk(k)' = Walk(k)
  BY DEF Walk, Abstract!Entries
<1>2. QED
  BY <1>1 DEF Walk, Abstract!Whole, Abstract!Partial

(* The list goes on after the page with number p.                          *)
On(p, list, page) == Len(list) < MaxEntries /\ More(page) /\ p + 1 < MaxPages

LEMMA Joined ==
  ASSUME NEW r \in Sequence, NEW s \in Sequence, NEW t \in Sequence
  PROVE  r \o (s \o t) = (r \o s) \o t
<1>1. r \in Seq(Entry) /\ s \in Seq(Entry) /\ t \in Seq(Entry)
  BY DEF Sequence
<1>2. (r \o s) \o t = r \o (s \o t)
  BY <1>1, ConcatAssociative
<1>3. QED
  BY <1>2, Zenon

(* The list at the end of a page.                                          *)
LEMMA PageEnds ==
  ASSUME Typed, NEW k \in Kinds, NEW c \in Cursors, NEW p \in Nat, p < MaxPages, NEW l \in Sequence,
         \A n \in 0..(MaxPages - p) : l \o Walk(k)[n][c] = Walk(k)[p + n][First]
  PROVE  LET page == catalog[k][c]
             list == l \o page.entries
         IN /\ list \in Sequence
            /\ On(p, list, page) =>
                 /\ page.next \in Cursors /\ Cut(list) = list
                 /\ \A n \in 0..(MaxPages - (p + 1)) :
                      list \o Walk(k)[n][page.next] = Walk(k)[(p + 1) + n][First]
            /\ ~On(p, list, page) => Cut(list) = Abstract!Whole(k)
<1> DEFINE page == catalog[k][c]
           list == l \o page.entries
           rest(n) == Rest(k, c, Walk(k)[n])
<1>2. MaxPages \in Nat \ {0} /\ MaxEntries \in Nat \ {0}
  BY LimitAssumption
<1>3. page.entries \in Sequence /\ page.next \in Cursors \cup {Empty, None}
  BY PageType
<1>4. list \in Sequence /\ Len(list) \in Nat
  BY <1>3, ConcatProperties, LenProperties DEF Sequence
<1> HIDE DEF page
<1>5. \A n \in 0..(MaxPages - 1) : rest(n) \in Sequence
  <2>1. \A n \in 0..(MaxPages - 1) : n \in 0..MaxPages
    BY <1>2
  <2>2. QED
    BY <2>1, WalkType, RestType
<1>6. ASSUME NEW n \in 0..(MaxPages - (p + 1))
      PROVE  Walk(k)[(p + 1) + n][First] = list \o rest(n)
  <2>1. n + 1 \in 0..(MaxPages - p) /\ n + 1 \in 1..MaxPages /\ n \in 0..(MaxPages - 1)
        /\ p + (n + 1) = (p + 1) + n /\ (n + 1) - 1 = n
    BY <1>2
  <2>2. l \o Walk(k)[n + 1][c] = Walk(k)[p + (n + 1)][First]
    BY <2>1
  <2>3. Walk(k)[n + 1][c] = page.entries \o rest(n)
    BY <2>1, WalkIs DEF page
  <2>4. rest(n) \in Sequence
    BY <1>5, <2>1
  <2>5. l \o (page.entries \o rest(n)) = list \o rest(n)
    BY <1>3, <2>4, Joined
  <2>6. Walk(k)[(p + 1) + n][First] = Walk(k)[p + (n + 1)][First]
    BY <2>1
  <2> HIDE DEF list, rest
  <2>7. QED
    BY <2>2, <2>3, <2>5, <2>6
<1>7. ASSUME On(p, list, page)
      PROVE  /\ page.next \in Cursors /\ Cut(list) = list
             /\ \A n \in 0..(MaxPages - (p + 1)) :
                  list \o Walk(k)[n][page.next] = Walk(k)[(p + 1) + n][First]
  <2>1. page.next \in Cursors /\ Len(list) < MaxEntries
    BY <1>3, <1>7 DEF On, More
  <2>2. Cut(list) = list
    BY <2>1 DEF Cut
  <2>3. ASSUME NEW n \in 0..(MaxPages - (p + 1))
        PROVE  list \o Walk(k)[n][page.next] = Walk(k)[(p + 1) + n][First]
    <3>1. rest(n) = Walk(k)[n][page.next]
      BY <2>1 DEF Rest, page
    <3>2. QED
      BY <1>6, <3>1
  <2>4. QED
    BY <2>1, <2>2, <2>3
<1>8. ASSUME ~On(p, list, page)
      PROVE  Cut(list) = Abstract!Whole(k)
  <2> DEFINE m == MaxPages - (p + 1)
  <2>1. m \in 0..(MaxPages - (p + 1)) /\ m \in 0..(MaxPages - 1) /\ (p + 1) + m = MaxPages
    BY <1>2
  <2>2. Walk(k)[MaxPages][First] = list \o rest(m) /\ rest(m) \in Sequence
    BY <1>5, <1>6, <2>1
  <2>3. Abstract!Whole(k) = Abstract!UpTo(list \o rest(m), MaxEntries)
    BY <2>2 DEF Walk, Abstract!Whole
  <2>4. CASE Len(list) >= MaxEntries
    <3>1. Cut(list) = SubSeq(list, 1, MaxEntries)
      BY <1>2, <1>4, <2>4 DEF Cut
    <3>2. QED
      BY <1>2, <1>4, <2>2, <2>3, <2>4, <3>1, UpToLong
  <2>5. CASE Len(list) < MaxEntries
    <3>1. rest(m) = <<>>
      <4>1. CASE page.next \notin Cursors
        BY <4>1 DEF Rest, page
      <4>2. CASE page.next \in Cursors
        <5>1. More(page)
          BY <4>2, CursorAssumption DEF More
        <5>2. ~(p + 1 < MaxPages)
          BY <1>8, <2>5, <5>1 DEF On
        <5>3. m = 0
          BY <1>2, <5>2
        <5>4. Walk(k)[0][page.next] = <<>>
          BY <4>2, WalkIs
        <5>5. QED
          BY <4>2, <5>3, <5>4 DEF Rest, page
      <4>3. QED
        BY <4>1, <4>2
    <3>2. list \o rest(m) = list
      BY <1>4, <3>1, ConcatEmptySeq DEF Sequence
    <3>3. Len(list) <= MaxEntries
      BY <1>2, <1>4, <2>5
    <3>4. Abstract!UpTo(list, MaxEntries) = list
      BY <1>2, <1>4, <3>3, UpToShort
    <3>5. Cut(list) = list
      BY <2>5 DEF Cut
    <3>6. QED
      BY <2>3, <3>2, <3>4, <3>5
  <2>6. QED
    BY <1>2, <1>4, <2>4, <2>5
<1>9. QED
  BY <1>4, <1>7, <1>8 DEF page
-----------------------------------------------------------------------------
(* What an operation has stays as it is while another one takes a step.    *)

Kept(q) == catalog' = catalog /\ op'[q] = op[q] /\ failed'[q] = failed[q]

LEMMA ListsSame ==
  ASSUME NEW q \in Operations, Kept(q), NEW k \in Kinds
  PROVE  (Going(q, k)' <=> Going(q, k)) /\ (Ended(q, k)' <=> Ended(q, k))
<1>1. /\ Walk(k)' = Walk(k)
      /\ Abstract!Whole(k)' = Abstract!Whole(k)
      /\ Abstract!Partial(k)' = Abstract!Partial(k)
  BY CatalogSame DEF Kept
<1>2. Going(q, k)' <=> Going(q, k)
  BY <1>1 DEF Going, Kept
<1>3. Ended(q, k)' <=> Ended(q, k)
  BY <1>1 DEF Ended, Kept
<1>4. QED
  BY <1>2, <1>3

LEMMA PreparedSame ==
  ASSUME NEW q \in Operations, Kept(q), NEW k \in Kinds
  PROVE  Prepared(q, k)' <=> Prepared(q, k)
<1>1. \A j \in Kinds : Ended(q, j)' <=> Ended(q, j)
  BY ListsSame
<1>2. \A j \in Kinds : Earlier(q, k, j)' <=> Earlier(q, k, j)
  BY DEF Earlier, Kept, Rank
<1>3. QED
  BY <1>1, <1>2 DEF Prepared, Kept

LEMMA GivenSame ==
  ASSUME NEW q \in Operations, Kept(q)
  PROVE  Given(q)' <=> Given(q)
<1>1. \A j \in Kinds : Ended(q, j)' <=> Ended(q, j)
  BY ListsSame
<1>2. \A j \in Kinds : Abstract!Whole(j)' = Abstract!Whole(j)
  BY CatalogSame DEF Kept
<1>3. QED
  BY <1>1, <1>2 DEF Given, Kept, Lists, Discovery

LEMMA ProgressSame ==
  ASSUME Typed, NEW q \in Operations, Kept(q), Progress(q)
  PROVE  Progress(q)'
<1>1. op[q].pc \in {"paging", "between"} => op[q].kind \in Kinds
  BY DEF Typed, PlacedInv, Placed
<1>2. op'[q] = op[q]
  BY DEF Kept
<1>3. \A k \in Kinds : /\ Going(q, k)' <=> Going(q, k)
                       /\ Ended(q, k)' <=> Ended(q, k)
                       /\ Prepared(q, k)' <=> Prepared(q, k)
  BY ListsSame, PreparedSame
<1>4. Given(q)' <=> Given(q)
  BY GivenSame
<1>5. NoLists' = NoLists
  BY DEF NoLists
<1>6. QED
  BY <1>1, <1>2, <1>3, <1>4, <1>5 DEF Progress, Lists, Discovery, Calls

(* One operation takes a step.                                             *)
LEMMA OneProgress ==
  ASSUME Typed, ProgressInv, NEW o \in Operations, Progress(o)',
         \A q \in Operations : q # o => Kept(q)
  PROVE  ProgressInv'
  BY ProgressSame DEF ProgressInv

LEMMA Replaced ==
  ASSUME Typed, NEW o \in Operations, NEW x, op' = [op EXCEPT ![o] = x],
         catalog' = catalog, failed' = failed
  PROVE  op'[o] = x /\ failed'[o] = failed[o] /\ \A q \in Operations : q # o => Kept(q)
  BY DEF Typed, TypeOK, Kept

LEMMA EndedSame ==
  ASSUME NEW o \in Operations, NEW j \in Kinds, catalog' = catalog,
         op'[o].lists[j] = op[o].lists[j], j \in failed'[o] <=> j \in failed[o]
  PROVE  Ended(o, j)' <=> Ended(o, j)
<1>1. Abstract!Whole(j)' = Abstract!Whole(j) /\ Abstract!Partial(j)' = Abstract!Partial(j)
  BY CatalogSame
<1>2. QED
  BY <1>1 DEF Ended

LEMMA ListsAre ==
  /\ \A w \in Kinds : w # Discovery /\ w \notin Calls /\ Lists[w] = {w}
  /\ Discovery \notin Calls /\ Lists[Discovery] = Kinds
  /\ \A w \in Calls : Lists[w] = {} /\ w # Discovery
  BY KindAssumption DEF Lists, Discovery, Calls

LEMMA NotNone == None \notin Sorts
  BY NoneAssumption, SortsAre

LEMMA BeginProgress ==
  ASSUME Known, NEW o \in Operations, NEW w \in DOMAIN Lists, Begin(o, w)
  PROVE  ProgressInv'
<1>1. /\ op'[o] = NewOp(w) /\ \A q \in Operations : q # o => Kept(q)
  BY Replaced DEF Begin, Known
<1>2. w # None
  BY NoneAssumption
<1>3. NewOp(w).pc = "connecting" /\ NewOp(w).what = w /\ NewOp(w).lists = NoLists
  BY DEF NewOp
<1>4. Progress(o)'
  BY <1>1, <1>2, <1>3 DEF Progress, NoLists
<1>5. QED
  BY <1>1, <1>4, OneProgress DEF Known

(* An operation that fails has no lists.                                   *)
LEMMA FailedProgress ==
  ASSUME Known, NEW o \in Operations, op[o].pc \notin {"idle", "done"},
         op' = [op EXCEPT ![o] = Failed(o)], catalog' = catalog,
         \A q \in Operations : q # o => failed'[q] = failed[q]
  PROVE  ProgressInv'
<1>1. op[o] \in Op /\ ~op[o].ok /\ op[o].what # None
  BY DEF Known, Typed, TypeOK, OnceInv, Once, ProgressInv, Progress
<1>2. /\ Failed(o).pc = "done" /\ ~Failed(o).ok /\ Failed(o).what = op[o].what
      /\ Failed(o).lists = NoLists
  BY <1>1, OpIs DEF Failed
<1>3. op'[o] = Failed(o) /\ \A q \in Operations : q # o => Kept(q)
  BY DEF Known, Typed, TypeOK, Kept
<1>4. Progress(o)'
  BY <1>1, <1>2, <1>3 DEF Progress, NoLists
<1>5. QED
  BY <1>3, <1>4, OneProgress DEF Known

LEMMA PagingFields ==
  ASSUME NEW o \in Operations, op[o] \in Op, NEW k \in Kinds
  PROVE  LET z == Paging(o, k)
         IN /\ z.pc = "paging" /\ z.kind = k /\ z.cursor = First /\ z.pages = 0
            /\ z.what = op[o].what /\ z.lists = op[o].lists
<1> DEFINE x == [op[o] EXCEPT !.pc = "paging"]
           y == [x EXCEPT !.kind = k]
           z == [y EXCEPT !.cursor = First]
<1>1. x \in Op /\ x.pc = "paging" /\ x.what = op[o].what /\ x.lists = op[o].lists
  BY OpIs
<1>2. y \in Op /\ y.pc = "paging" /\ y.kind = k /\ y.what = op[o].what /\ y.lists = op[o].lists
  BY <1>1, OpIs
<1>3. /\ z \in Op /\ z.pc = "paging" /\ z.kind = k /\ z.cursor = First /\ z.what = op[o].what
      /\ z.lists = op[o].lists
  BY <1>2, CursorAssumption, OpIs
<1>4. Paging(o, k) = [z EXCEPT !.pages = 0]
  BY DEF Paging
<1> HIDE DEF z
<1>5. QED
  BY <1>3, <1>4, OpIs

(* The first page of the list of kind k is about to be asked for.          *)
LEMMA PagingProgress ==
  ASSUME Known, NEW o \in Operations, NEW k \in Kinds, op[o].pc # "idle",
         op' = [op EXCEPT ![o] = Paging(o, k)], catalog' = catalog, failed' = failed,
         k \in Lists[op[o].what], op[o].lists[k] = <<>>, Prepared(o, k)
  PROVE  ProgressInv'
<1>1. op[o] \in Op /\ Progress(o)
  BY DEF Known, Typed, TypeOK, ProgressInv
<1>2. /\ op'[o] = Paging(o, k) /\ failed'[o] = failed[o]
      /\ \A q \in Operations : q # o => Kept(q)
  BY Replaced DEF Known
<1>3. /\ op'[o].pc = "paging" /\ op'[o].kind = k /\ op'[o].cursor = First
      /\ op'[o].pages = 0 /\ op'[o].what = op[o].what /\ op'[o].lists = op[o].lists
  BY <1>1, <1>2, PagingFields
<1>4. Going(o, k)'
  <2>1. MaxPages \in Nat \ {0} /\ MaxEntries \in Nat \ {0}
    BY LimitAssumption
  <2>2. 0 < MaxPages /\ Len(op[o].lists[k]) < MaxEntries
    BY <2>1
  <2>3. ASSUME NEW n \in 0..MaxPages
        PROVE  <<>> \o Walk(k)[n][First] = Walk(k)[0 + n][First]
    <3>1. Walk(k)[n][First] \in Seq(Entry)
      BY WalkIs, CursorAssumption DEF Known, Sequence
    <3>2. <<>> \o Walk(k)[n][First] = Walk(k)[n][First]
      BY <3>1, ConcatEmptySeq
    <3>3. 0 + n = n
      BY <2>1
    <3>4. QED
      BY <3>2, <3>3
  <2>4. MaxPages - 0 = MaxPages
    BY <2>1
  <2>5. Walk(k)' = Walk(k)
    BY CatalogSame
  <2>6. QED
    BY <1>3, <2>2, <2>3, <2>4, <2>5 DEF Going
<1>5. Prepared(o, k)'
  <2>1. \A j \in Kinds : Ended(o, j)' <=> Ended(o, j)
    BY <1>2, <1>3, EndedSame
  <2>2. \A j \in Kinds : Earlier(o, k, j)' <=> Earlier(o, k, j)
    BY <1>3 DEF Earlier, Rank
  <2>3. QED
    BY <1>3, <2>1, <2>2 DEF Prepared
<1>6. op[o].what # None
  BY <1>1 DEF Progress
<1>7. Progress(o)'
  BY <1>3, <1>4, <1>5, <1>6 DEF Progress, Lists
<1>8. QED
  BY <1>2, <1>7, OneProgress DEF Known

LEMMA ConnectProgress ==
  ASSUME Known, NEW o \in Operations, NEW k \in Kinds, Connect(o, k),
         op[o].what = k \/ (op[o].what = Discovery /\ k = "tools")
  PROVE  ProgressInv'
<1>1. op[o].pc = "connecting" /\ op[o].lists = NoLists
  BY DEF Known, ProgressInv, Progress, Connect
<1>2. k \in Lists[op[o].what]
  BY ListsAre
<1>3. \A j \in Kinds : ~Earlier(o, k, j)
  BY RankIs, ListsAre DEF Earlier
<1>4. op[o].lists[k] = <<>> /\ Prepared(o, k)
  BY <1>1, <1>3 DEF Prepared, NoLists
<1>5. QED
  BY <1>1, <1>2, <1>4, PagingProgress DEF Connect

(* The fields of an operation whose list of kind k is replaced.            *)
LEMMA KeptFields ==
  ASSUME NEW x \in Op, NEW k \in Kinds, NEW list \in Fitting
  PROVE  LET kept == [x EXCEPT !.lists[k] = list]
         IN /\ kept \in Op /\ kept.pages = x.pages /\ kept.pc = x.pc /\ kept.kind = x.kind
            /\ kept.what = x.what
            /\ \A j \in Kinds : kept.lists[j] = IF j = k THEN list ELSE x.lists[j]
<1> DEFINE kept == [x EXCEPT !.lists[k] = list]
<1>1. x.lists \in [Kinds -> Fitting]
  BY OpIs
<1>2. /\ kept \in Op /\ kept.pages = x.pages /\ kept.pc = x.pc /\ kept.kind = x.kind
      /\ kept.what = x.what /\ kept.lists = [x.lists EXCEPT ![k] = list]
  BY <1>1, OpIs
<1> HIDE DEF kept
<1>3. \A j \in Kinds : kept.lists[j] = IF j = k THEN list ELSE x.lists[j]
  BY <1>1, <1>2
<1>4. QED
  BY <1>2, <1>3 DEF kept

(* The fields of an operation after a page, and what is known of its list. *)
LEMMA NextPageIs ==
  ASSUME Known, NEW o \in Operations, NEW after \in {"between", "done"}, NextPage(o, after)
  PROVE  LET k    == op[o].kind
             page == catalog[k][op[o].cursor]
             list == op[o].lists[k] \o page.entries
             next == op'[o]
         IN /\ k \in Kinds /\ op[o].pages \in 0..MaxPages
            /\ next.kind = k /\ next.what = op[o].what
            /\ \A j \in Kinds : j # k => next.lists[j] = op[o].lists[j]
            /\ next.lists[k] = Cut(list)
            /\ On(op[o].pages, list, page) =>
                 /\ next.pc = "paging" /\ next.cursor = page.next
                 /\ next.pages = op[o].pages + 1
                 /\ Cut(list) = list
                 /\ \A n \in 0..(MaxPages - (op[o].pages + 1)) :
                      list \o Walk(k)[n][page.next] = Walk(k)[(op[o].pages + 1) + n][First]
            /\ ~On(op[o].pages, list, page) =>
                 /\ next.pc = after /\ next.ok = (after = "done")
                 /\ Cut(list) = Abstract!Whole(k)
            /\ \A q \in Operations : q # o => Kept(q)
<1> DEFINE k    == op[o].kind
           p    == op[o].pages
           page == catalog[k][op[o].cursor]
           list == op[o].lists[k] \o page.entries
           kept == [op[o] EXCEPT !.lists[k] = Cut(list)]
<1>1. op[o] \in Op /\ Placed(op[o]) /\ op[o].pc = "paging" /\ Progress(o) /\ Typed
  BY DEF Known, Typed, TypeOK, PlacedInv, NextPage, ProgressInv
<1>2. k \in Kinds /\ op[o].cursor \in Cursors /\ p \in 0..MaxPages /\ p \in Nat
  BY <1>1, OpIs, LimitAssumption DEF Placed
<1>3. Going(o, k)
  BY <1>1 DEF Progress
<1>4. op[o].lists[k] \in Sequence
  BY <1>1, <1>2, OpIs DEF Fitting, Sequence
<1>5. /\ list \in Sequence
      /\ On(p, list, page) =>
           /\ page.next \in Cursors /\ Cut(list) = list
           /\ \A n \in 0..(MaxPages - (p + 1)) :
                list \o Walk(k)[n][page.next] = Walk(k)[(p + 1) + n][First]
      /\ ~On(p, list, page) => Cut(list) = Abstract!Whole(k)
  <2>1. p < MaxPages /\ \A n \in 0..(MaxPages - p) :
          op[o].lists[k] \o Walk(k)[n][op[o].cursor] = Walk(k)[p + n][First]
    BY <1>3 DEF Going
  <2> HIDE DEF k, p
  <2>2. QED
    BY <1>1, <1>2, <1>4, <2>1, PageEnds
<1>6. Cut(list) \in Fitting
  BY <1>5, CutType DEF Sequence
<1>7. GoesOn(o, list, page) <=> On(p, list, page)
  BY DEF GoesOn, On, Counted
<1>8. \A q \in Operations : q # o => Kept(q)
  BY <1>1 DEF NextPage, Kept, Typed, TypeOK
<1>9. /\ kept \in Op /\ kept.pages = p /\ kept.pc = op[o].pc /\ kept.kind = k
      /\ kept.what = op[o].what
      /\ \A j \in Kinds : kept.lists[j] = IF j = k THEN Cut(list) ELSE op[o].lists[j]
  BY <1>1, <1>2, <1>6, KeptFields
<1>10. CASE On(p, list, page)
  <2> DEFINE on == [kept EXCEPT !.cursor = page.next, !.pages = Counted(kept.pages)]
  <2>1. op'[o] = on
    BY <1>1, <1>7, <1>10 DEF NextPage, Typed, TypeOK
  <2>2. kept.pages = p
    BY <1>1, OpIs
  <2>3. Counted(kept.pages) = p + 1 /\ p + 1 \in 0..MaxPages
    BY <1>2, <1>10, <2>2, LimitAssumption DEF On, Counted
  <2>4. op'[o] = [kept EXCEPT !.cursor = page.next, !.pages = p + 1]
    BY <2>1, <2>3
  <2> HIDE DEF kept
  <2>5. /\ op'[o].pc = kept.pc /\ op'[o].kind = kept.kind /\ op'[o].what = kept.what
        /\ op'[o].cursor = page.next /\ op'[o].pages = p + 1 /\ op'[o].lists = kept.lists
    BY <1>9, <2>4, OpIs
  <2>6. QED
    BY <1>1, <1>2, <1>5, <1>8, <1>10, <1>9, <2>5
<1>11. CASE ~On(p, list, page)
  <2>1. op'[o] = [kept EXCEPT !.pc = after, !.ok = (after = "done")]
    BY <1>1, <1>7, <1>11 DEF NextPage, Typed, TypeOK
  <2> HIDE DEF kept
  <2>2. /\ op'[o].pc = after /\ op'[o].kind = kept.kind /\ op'[o].what = kept.what
        /\ op'[o].ok = (after = "done") /\ op'[o].lists = kept.lists
    BY <1>9, <2>1, OpIs
  <2>3. QED
    BY <1>2, <1>5, <1>8, <1>11, <1>9, <2>2
<1>12. QED
  BY <1>10, <1>11

LEMMA NextPageProgress ==
  ASSUME Known, NEW o \in Operations, NEW k \in Kinds, k = op[o].kind,
         NEW after \in {"between", "done"}, NextPage(o, after),
         IF after = "done" THEN op[o].what = op[o].kind ELSE op[o].what = Discovery
  PROVE  ProgressInv'
<1> DEFINE page == catalog[k][op[o].cursor]
           list == op[o].lists[k] \o page.entries
<1>1. /\ op[o].pc = "paging" /\ Progress(o)
      /\ catalog' = catalog /\ failed' = failed
  BY DEF NextPage, Known, ProgressInv
<1>2. /\ op[o].what # None /\ k \in Lists[op[o].what] /\ Going(o, k) /\ Prepared(o, k)
  BY <1>1 DEF Progress
<1>3. /\ k \in Kinds /\ op'[o].kind = k /\ op'[o].what = op[o].what
      /\ \A j \in Kinds : j # k => op'[o].lists[j] = op[o].lists[j]
      /\ op'[o].lists[k] = Cut(list)
      /\ \A q \in Operations : q # o => Kept(q)
  BY NextPageIs
<1>4. Prepared(o, k)'
  <2>1. \A j \in Kinds : j # k => (Ended(o, j)' <=> Ended(o, j))
    BY <1>1, <1>3, EndedSame
  <2>2. \A j \in Kinds : Earlier(o, k, j)' <=> Earlier(o, k, j)
    BY <1>3 DEF Earlier, Rank
  <2>3. QED
    BY <1>2, <1>3, <2>1, <2>2 DEF Prepared
<1>5. CASE On(op[o].pages, list, page)
  <2>1. /\ op'[o].pc = "paging" /\ op'[o].cursor = page.next
        /\ op'[o].pages = op[o].pages + 1 /\ op'[o].lists[k] = list
        /\ \A n \in 0..(MaxPages - (op[o].pages + 1)) :
             list \o Walk(k)[n][page.next] = Walk(k)[(op[o].pages + 1) + n][First]
    BY <1>5, NextPageIs
  <2>2. op[o].pages + 1 < MaxPages /\ Len(list) < MaxEntries
    BY <1>5 DEF On
  <2>3. Walk(k)' = Walk(k)
    BY <1>1, <1>3, CatalogSame
  <2>4. Going(o, k)'
    <3> HIDE DEF page, list
    <3>1. QED
      BY <2>1, <2>2, <2>3 DEF Going
  <2> HIDE DEF page, list
  <2>5. Progress(o)'
    BY <1>2, <1>3, <1>4, <2>1, <2>4 DEF Progress, Lists
  <2>6. QED
    BY <1>3, <2>5, OneProgress DEF Known
<1>6. CASE ~On(op[o].pages, list, page)
  <2>1. /\ op'[o].pc = after /\ op'[o].ok = (after = "done")
        /\ op'[o].lists[k] = Abstract!Whole(k)
    BY <1>6, NextPageIs
  <2>2. Ended(o, k)' /\ Abstract!Whole(k)' = Abstract!Whole(k)
    BY <1>1, <1>3, <2>1, CatalogSame, WholeIsPartial DEF Ended
  <2> HIDE DEF page, list
  <2>3. Progress(o)'
    <3>1. CASE after = "done"
      <4>1. op[o].what = k /\ Lists[k] = {k} /\ k # Discovery
        BY <1>3, <3>1, ListsAre
      <4>2. \A j \in Kinds : j # k => op'[o].lists[j] = <<>>
        BY <1>2, <1>3, <4>1 DEF Prepared, Earlier
      <4>3. Given(o)'
        <5>1. op'[o].what = k /\ \A j \in Kinds : j \in Lists[k] <=> j = k
          BY <1>3, <4>1
        <5>2. QED
          BY <2>1, <2>2, <4>2, <5>1 DEF Given
      <4>4. QED
        BY <1>2, <1>3, <2>1, <3>1, <4>3 DEF Progress
    <3>2. CASE after = "between"
      <4>1. op[o].what = Discovery
        BY <3>2
      <4>2. QED
        BY <1>2, <1>3, <1>4, <2>1, <2>2, <3>2, <4>1 DEF Progress, Discovery
    <3>3. QED
      BY <3>1, <3>2
  <2>4. QED
    BY <1>3, <2>3, OneProgress DEF Known
<1>7. QED
  BY <1>5, <1>6

(* A page of a discovery fails: its list ends with the pages it has.       *)
LEMMA EndsListProgress ==
  ASSUME Known, NEW o \in Operations, NEW k \in Kinds, k = op[o].kind, EndsList(o),
         op[o].what = Discovery
  PROVE  ProgressInv'
<1>1. /\ op[o] \in Op /\ Placed(op[o]) /\ op[o].pc = "paging" /\ Progress(o)
      /\ catalog' = catalog /\ Typed
  BY DEF Known, Typed, TypeOK, PlacedInv, EndsList, ProgressInv
<1>2. k \in Kinds /\ Going(o, k) /\ Prepared(o, k)
  BY <1>1 DEF Progress, Placed
<1>3. /\ op'[o] = [op[o] EXCEPT !.pc = "between"] /\ failed'[o] = failed[o] \cup {k}
      /\ \A q \in Operations : q # o => Kept(q)
  BY <1>1 DEF EndsList, Kept, Typed, TypeOK
<1>4. /\ op'[o].pc = "between" /\ op'[o].kind = k /\ op'[o].what = op[o].what
      /\ op'[o].lists = op[o].lists
  BY <1>1, <1>3, OpIs
<1>5. op[o].lists[k] \in Abstract!Partial(k)
  <2>1. MaxPages \in Nat \ {0} /\ MaxEntries \in Nat \ {0} /\ op[o].pages \in 0..MaxPages
        /\ op[o].cursor \in Cursors /\ op[o].lists[k] \in Sequence
    BY <1>1, <1>2, OpIs, LimitAssumption DEF Placed, Fitting, Sequence
  <2>2. 0 \in 0..(MaxPages - op[o].pages) /\ op[o].pages + 0 = op[o].pages
    BY <2>1
  <2>3. op[o].lists[k] \o Walk(k)[0][op[o].cursor] = Walk(k)[op[o].pages][First]
    BY <1>2, <2>2 DEF Going
  <2>4. op[o].lists[k] = Walk(k)[op[o].pages][First]
    BY <1>1, <1>2, <2>1, <2>3, WalkIs, ConcatEmptySeq DEF Sequence
  <2>5. Len(op[o].lists[k]) <= MaxEntries
    BY <1>1, <1>2, OpIs DEF Fitting
  <2>6. Abstract!UpTo(Walk(k)[op[o].pages][First], MaxEntries) = op[o].lists[k]
    BY <2>1, <2>4, <2>5, UpToShort
  <2>7. QED
    BY <2>1, <2>6 DEF Walk, Abstract!Partial
<1>6. Ended(o, k)'
  <2>1. Abstract!Partial(k)' = Abstract!Partial(k)
    BY <1>1, <1>2, CatalogSame
  <2>2. QED
    BY <1>3, <1>4, <1>5, <2>1 DEF Ended
<1>7. Prepared(o, k)'
  <2>1. \A j \in Kinds : j # k => (Ended(o, j)' <=> Ended(o, j))
    BY <1>1, <1>3, <1>4, EndedSame
  <2>2. \A j \in Kinds : Earlier(o, k, j)' <=> Earlier(o, k, j)
    BY <1>4 DEF Earlier, Rank
  <2>3. QED
    BY <1>2, <1>4, <2>1, <2>2 DEF Prepared
<1>8. Progress(o)'
  BY <1>1, <1>4, <1>6, <1>7 DEF Progress, Discovery
<1>9. QED
  BY <1>1, <1>3, <1>8, OneProgress DEF Known

LEMMA FinishedFields ==
  ASSUME NEW o \in Operations, op[o] \in Op
  PROVE  /\ Finished(o).pc = "done" /\ Finished(o).ok = TRUE
         /\ Finished(o).what = op[o].what /\ Finished(o).lists = op[o].lists
  BY OpIs DEF Finished

(* A discovery turns to the next kind, or ends with the prompts.           *)
LEMMA BetweenProgress ==
  ASSUME Known, NEW o \in Operations, NEW k \in Kinds, k = op[o].kind,
         op[o].pc = "between",
         op' = [op EXCEPT ![o] = IF k = "prompts" THEN Finished(o) ELSE Paging(o, After(k))],
         catalog' = catalog, failed' = failed
  PROVE  ProgressInv'
<1>1. /\ op[o] \in Op /\ Progress(o) /\ op[o].what = Discovery
      /\ Ended(o, k) /\ Prepared(o, k)
  BY DEF Known, Typed, TypeOK, ProgressInv, Progress
<1>2. Lists[op[o].what] = Kinds /\ op[o].what # None
  BY <1>1, ListsAre DEF Progress
<1>3. CASE k = "prompts"
  <2>1. \A j \in Kinds \ {k} : Earlier(o, k, j)
    BY <1>1, <1>3, RankIs, KindAssumption DEF Earlier
  <2>2. \A j \in Kinds : Ended(o, j)
    BY <1>1, <2>1 DEF Prepared
  <2>3. /\ op'[o] = Finished(o) /\ failed'[o] = failed[o]
        /\ \A q \in Operations : q # o => Kept(q)
    BY <1>3, Replaced DEF Known
  <2>4. /\ op'[o].pc = "done" /\ op'[o].ok = TRUE /\ op'[o].what = op[o].what
        /\ op'[o].lists = op[o].lists
    BY <1>1, <2>3, FinishedFields
  <2>5. \A j \in Kinds : Ended(o, j)'
    BY <2>2, <2>3, <2>4, EndedSame
  <2>6. Given(o)'
    <3>1. op'[o].what = Discovery /\ \A j \in Kinds : j \in Lists[Discovery]
      BY <1>1, <2>4, ListsAre
    <3>2. QED
      BY <2>5, <3>1 DEF Given
  <2>7. Progress(o)'
    BY <1>2, <2>4, <2>6 DEF Progress
  <2>8. QED
    BY <2>3, <2>7, OneProgress DEF Known
<1>4. CASE k # "prompts"
  <2> DEFINE n == After(k)
  <2>1. n \in Kinds /\ Rank[n] = Rank[k] + 1
    BY <1>4, KindAssumption, RankIs DEF After
  <2> HIDE DEF n
  <2>2. \A i \in Kinds, j \in Kinds : Rank[i] \in 1..4 /\ (Rank[i] = Rank[j] => i = j)
    BY RankIs, KindAssumption
  <2>3. op[o].lists[n] = <<>>
    BY <1>1, <2>1, <2>2 DEF Prepared, Earlier
  <2>4. ASSUME NEW j \in Kinds \ {n}
        PROVE  IF Earlier(o, n, j) THEN Ended(o, j) ELSE op[o].lists[j] = <<>>
    <3>1. CASE j = k
      BY <1>1, <2>1, <2>2, <3>1 DEF Earlier
    <3>2. CASE j # k
      <4>1. Earlier(o, n, j) <=> Earlier(o, k, j)
        <5>1. Rank[j] \in 1..4 /\ Rank[k] \in 1..4 /\ Rank[j] # Rank[k]
          BY <2>2, <3>2
        <5>2. Rank[j] < Rank[n] <=> Rank[j] < Rank[k]
          BY <2>1, <5>1
        <5>3. QED
          BY <5>2 DEF Earlier
      <4>2. QED
        BY <1>1, <3>2, <4>1 DEF Prepared
    <3>3. QED
      BY <3>1, <3>2
  <2>5. Prepared(o, n)
    BY <2>4 DEF Prepared
  <2>6. op' = [op EXCEPT ![o] = Paging(o, n)]
    BY <1>4 DEF n
  <2>7. QED
    BY <1>2, <2>1, <2>3, <2>5, <2>6, PagingProgress
<1>5. QED
  BY <1>3, <1>4

LEMMA CallingProgress ==
  ASSUME Known, NEW o \in Operations, op[o].what \in Calls, Calling(o)
  PROVE  ProgressInv'
<1>1. op[o] \in Op /\ Progress(o) /\ Lists[op[o].what] = {}
  BY ListsAre DEF Known, Typed, TypeOK, ProgressInv
<1>2. CASE NotConnected(o) \/ CallFails(o)
  BY <1>2, FailedProgress DEF NotConnected, CallFails, CallLost
<1>3. CASE Send(o)
  <2>1. /\ op' = [op EXCEPT ![o] = [op[o] EXCEPT !.pc = "calling"]]
        /\ op[o].pc = "connecting" /\ catalog' = catalog /\ failed' = failed
    BY <1>3 DEF Send
  <2>2. /\ op'[o] = [op[o] EXCEPT !.pc = "calling"]
        /\ \A q \in Operations : q # o => Kept(q)
    BY <2>1, Replaced DEF Known
  <2>3. op'[o].pc = "calling" /\ op'[o].what = op[o].what /\ op'[o].lists = op[o].lists
    BY <1>1, <2>2, OpIs
  <2>4. Progress(o)'
    BY <1>1, <2>1, <2>3 DEF Progress, NoLists, Calls
  <2>5. QED
    BY <2>2, <2>4, OneProgress DEF Known
<1>4. CASE Reply(o)
  <2>1. op[o].pc = "calling" /\ catalog' = catalog /\ failed' = failed
    BY <1>4 DEF Reply
  <2>2. op'[o] = Finished(o) /\ \A q \in Operations : q # o => Kept(q)
    BY <1>4, Replaced DEF Known, Reply
  <2>3. /\ op'[o].pc = "done" /\ op'[o].ok = TRUE /\ op'[o].what = op[o].what
        /\ op'[o].lists = op[o].lists
    BY <1>1, <2>2, FinishedFields
  <2>4. op[o].what # None /\ \A j \in Kinds : op[o].lists[j] = <<>>
    BY <1>1, <2>1 DEF Progress, NoLists
  <2>5. Given(o)'
    <3>1. \A j \in Kinds : j \notin Lists[op[o].what]
      BY <1>1
    <3>2. QED
      BY <2>3, <2>4, <3>1 DEF Given
  <2>6. Progress(o)'
    BY <2>3, <2>4, <2>5 DEF Progress
  <2>7. QED
    BY <2>2, <2>6, OneProgress DEF Known
<1>5. QED
  BY <1>2, <1>3, <1>4 DEF Calling

LEMMA ListingProgress ==
  ASSUME Known, NEW o \in Operations, op[o].what \in Kinds, Listing(o, op[o].what)
  PROVE  ProgressInv'
<1>1. Progress(o) /\ Placed(op[o])
  BY DEF Known, Typed, PlacedInv, ProgressInv
<1>2. CASE Connect(o, op[o].what)
  BY <1>2, ConnectProgress
<1>3. CASE NotConnected(o)
  BY <1>3, FailedProgress DEF NotConnected
<1>4. CASE NextPage(o, "done")
  <2>1. op[o].pc = "paging"
    BY <1>4 DEF NextPage
  <2>2. op[o].kind = op[o].what
    BY <1>1, <2>1, ListsAre DEF Progress
  <2>3. QED
    BY <1>4, <2>2, NextPageProgress
<1>5. CASE LosesList(o)
  <2>1. /\ op[o].pc = "paging" /\ op' = [op EXCEPT ![o] = Failed(o)] /\ catalog' = catalog
        /\ \A q \in Operations : q # o => failed'[q] = failed[q]
    BY <1>5 DEF LosesList, Dropped, Known, Typed, TypeOK
  <2>2. QED
    BY <2>1, FailedProgress
<1>6. QED
  BY <1>2, <1>3, <1>4, <1>5 DEF Listing

LEMMA DiscoverProgress ==
  ASSUME Known, NEW o \in Operations, DiscoverForward(o)
  PROVE  ProgressInv'
<1>1. op[o].what = Discovery /\ "tools" \in Kinds
  BY KindAssumption DEF DiscoverForward
<1>2. CASE Connect(o, "tools")
  BY <1>1, <1>2, ConnectProgress
<1>3. CASE NotConnected(o)
  BY <1>3, FailedProgress DEF NotConnected
<1>4. ASSUME NEW k, Discovering(o, k)
      PROVE  ProgressInv'
  <2>1. op[o].pc = "paging"
    BY <1>4 DEF Discovering, NextPage, EndsList
  <2>2. op[o].kind \in Kinds
    BY <2>1 DEF Known, Typed, PlacedInv, Placed
  <2>3. CASE NextPage(o, "between")
    BY <1>1, <2>2, <2>3, NextPageProgress
  <2>4. CASE EndsList(o)
    BY <1>1, <2>2, <2>4, EndsListProgress
  <2>5. QED
    BY <1>4, <2>3, <2>4 DEF Discovering
<1>5. CASE /\ op[o].pc = "between"
           /\ op' = [op EXCEPT ![o] = IF op[o].kind = "prompts" THEN Finished(o)
                                      ELSE Paging(o, After(op[o].kind))]
           /\ UNCHANGED <<catalog, sent, executed, failed>>
  <2>1. op[o].kind \in Kinds
    BY <1>5 DEF Known, Typed, PlacedInv, Placed
  <2>2. QED
    BY <1>5, <2>1, BetweenProgress
<1>6. QED
  BY <1>2, <1>3, <1>4, <1>5 DEF DiscoverForward, DiscoverToolsOnSession,
     DiscoverResourcesOnSession, DiscoverResourceTemplatesOnSession, DiscoverPromptsOnSession

LEMMA NextProgress ==
  ASSUME Known, [Next]_vars
  PROVE  ProgressInv'
<1>1. CASE catalog' = catalog /\ op' = op /\ failed' = failed
  BY <1>1, ProgressSame DEF Known, ProgressInv, Kept
<1>2. ASSUME NEW o \in Operations, Step(o)
      PROVE  ProgressInv'
  <2>1. \/ op[o].what \in Kinds /\ Listing(o, op[o].what)
        \/ DiscoverForward(o)
        \/ op[o].what \in Calls /\ Calling(o)
    BY <1>2, KindAssumption DEF Step, ListTools, ListResources, ListResourceTemplates,
       ListPrompts, CallTool, ReadResource, GetPrompt, Calls
  <2>2. QED
    BY <2>1, ListingProgress, DiscoverProgress, CallingProgress
<1>3. ASSUME NEW o \in Operations, Execute(o)
      PROVE  ProgressInv'
  BY <1>1, <1>3 DEF Execute
<1>4. QED
  BY <1>1, <1>2, <1>3, BeginProgress DEF Next, vars

LEMMA InitProgress == Init => ProgressInv
<1> SUFFICES ASSUME Init, NEW o \in Operations PROVE Progress(o)
  BY DEF ProgressInv
<1>1. op[o] = NoOp
  BY DEF Init
<1>2. NoOp.pc = "idle" /\ NoOp.what = None /\ NoOp.lists = NoLists
  BY DEF NoOp, NewOp
<1>3. QED
  BY <1>1, <1>2 DEF Progress

LEMMA InitKnown == Init => Known
  BY InitType, InitOnce, InitProgress DEF Known

LEMMA NextKnown == Known /\ [Next]_vars => Known'
  BY NextType, NextOnce, NextProgress DEF Known

\* A list of which no page failed is the whole catalog up to the limits, whatever pages
\* and cursors the server hands out (list_tools_on_session and its like).
THEOREM WholeWhenNotFailed == Spec => []WholeUnlessFailed
<1>1. Known => WholeUnlessFailed
  <2> SUFFICES ASSUME Known, NEW o \in Operations, NEW k \in Kinds,
                      op[o].pc = "done" /\ op[o].ok /\ k \in Lists[op[o].what] /\ k \notin failed[o]
               PROVE  op[o].lists[k] = Abstract!Whole(k)
    BY DEF WholeUnlessFailed
  <2>1. Progress(o)
    BY DEF Known, ProgressInv
  <2>2. Given(o)
    BY <2>1 DEF Progress
  <2>3. QED
    BY <2>2 DEF Given, Ended
<1>2. QED
  BY InitKnown, NextKnown, <1>1, PTL DEF Spec
-----------------------------------------------------------------------------
(* The refinement.                                                         *)

LEMMA AbstractInit == Init => Abstract!Init
<1> SUFFICES ASSUME Init PROVE Abstract!Init
  OBVIOUS
<1>1. \A o \in Operations : op[o].what = None /\ op[o].pc = "idle"
  BY DEF Init, NoOp, NewOp
<1>2. QED
  BY <1>1 DEF Abstract!Init, Asked, Answers, AnswerOf

(* An operation that has ended has an answer that may be given.            *)
LEMMA EndedAnswers ==
  ASSUME Known, NEW o \in Operations, op[o].pc = "done"
  PROVE  /\ Abstract!Answers(AnswerOf(o), op[o].what)
         /\ AnswerOf(o) # None
<1>1. op[o] \in Op /\ Progress(o)
  BY DEF Known, Typed, TypeOK, ProgressInv
<1>2. AnswerOf(o) = [ok |-> op[o].ok, lists |-> op[o].lists] /\ op[o].ok \in BOOLEAN
  BY <1>1, OpIs DEF AnswerOf
<1>3. AnswerOf(o) # None
  <2>1. op[o].lists \in [Kinds -> Seq(Entry)]
    BY <1>1, OpIs DEF Fitting
  <2>2. AnswerOf(o) \in [ok : BOOLEAN, lists : [Kinds -> Seq(Entry)]]
    BY <1>2, <2>1
  <2>3. QED
    BY <2>2, NoneAssumption
<1>4. CASE op[o].ok
  <2>1. Given(o)
    BY <1>1, <1>4 DEF Progress
  <2>2. ASSUME NEW k \in Kinds
        PROVE  op[o].lists[k] \in IF k \notin Lists[op[o].what] THEN {<<>>}
                                   ELSE IF op[o].what = Discovery THEN Abstract!Partial(k)
                                   ELSE {Abstract!Whole(k)}
    BY <2>1 DEF Given, Ended
  <2>3. AnswerOf(o).lists = op[o].lists
    BY <1>2
  <2>4. AnswerOf(o).ok
    <3>1. AnswerOf(o).ok = op[o].ok
      BY <1>2
    <3>2. QED
      BY <1>4, <3>1, Zenon
  <2> HIDE DEF AnswerOf
  <2>5. QED
    BY <1>3, <2>2, <2>3, <2>4, Zenon DEF Abstract!Answers
<1>5. CASE ~op[o].ok
  <2>1. op[o].lists = NoLists
    BY <1>1, <1>5 DEF Progress
  <2>2. QED
    BY <1>2, <1>3, <1>5, <2>1 DEF Abstract!Answers, Abstract!Failure, Abstract!NoLists, NoLists
<1>6. QED
  BY <1>4, <1>5

LEMMA EndedNext ==
  ASSUME NEW o \in Operations
  PROVE  Known' /\ op'[o].pc = "done"
           => Abstract!Answers(AnswerOf(o), op[o].what)' /\ AnswerOf(o)' # None
<1>1. Known /\ op[o].pc = "done"
        => Abstract!Answers(AnswerOf(o), op[o].what) /\ AnswerOf(o) # None
  BY EndedAnswers
<1>2. (Known /\ op[o].pc = "done"
         => Abstract!Answers(AnswerOf(o), op[o].what) /\ AnswerOf(o) # None)'
  BY <1>1, PTL
<1>3. QED
  BY <1>2

(* One operation at a time, which leaves the others as they are.           *)
LEMMA OneChanges ==
  ASSUME Known, NEW o \in Operations, NEW w \in DOMAIN Lists,
         Begin(o, w) \/ Step(o) \/ Execute(o)
  PROVE  catalog' = catalog /\ \A q \in Operations : q # o => op'[q] = op[q]
<1>1. op \in [Operations -> Op]
  BY DEF Known, Typed, TypeOK
<1>2. QED
  BY <1>1 DEF Begin, Execute, Step, ListTools, ListResources, ListResourceTemplates, ListPrompts,
     DiscoverForward, CallTool, ReadResource, GetPrompt, Listing, Discovering, Calling, Connect,
     NotConnected, NextPage, LosesList, EndsList, Send, Reply, CallFails,
     DiscoverToolsOnSession, DiscoverResourcesOnSession, DiscoverResourceTemplatesOnSession,
     DiscoverPromptsOnSession

(* A step of an operation: it runs, and it may end.                        *)
LEMMA RunningStep ==
  ASSUME Known, NEW o \in Operations, Step(o)
  PROVE  /\ op[o].pc \notin {"idle", "done"}
         /\ op'[o].what = op[o].what
<1>1. op[o] \in Op /\ op \in [Operations -> Op] /\ Placed(op[o])
  BY DEF Known, Typed, TypeOK, PlacedInv
<1>2. op[o].pc \notin {"idle", "done"}
  BY DEF Step, ListTools, ListResources, ListResourceTemplates, ListPrompts,
     DiscoverForward, CallTool, ReadResource, GetPrompt, Listing, Discovering, Calling, Connect,
     NotConnected, NextPage, LosesList, EndsList, Send, Reply, CallFails,
     DiscoverToolsOnSession, DiscoverResourcesOnSession, DiscoverResourceTemplatesOnSession,
     DiscoverPromptsOnSession
<1>3. Finished(o).what = op[o].what /\ Failed(o).what = op[o].what
  BY <1>1, OutcomesAre, KindAssumption
<1>4. \A k \in Kinds : Paging(o, k).what = op[o].what
  BY <1>1, PagingFields
<1>5. \A pc \in {"between", "calling"} : [op[o] EXCEPT !.pc = pc].what = op[o].what
  BY <1>1, OpIs
<1>6. ASSUME NEW after \in {"between", "done"}, NextPage(o, after)
      PROVE  op'[o].what = op[o].what
  BY <1>6, NextPageIs
<1>7. CASE ~(NextPage(o, "done") \/ NextPage(o, "between"))
  <2>1. \/ op'[o] = Finished(o) \/ op'[o] = Failed(o)
        \/ \E k \in Kinds : op'[o] = Paging(o, k)
        \/ \E pc \in {"between", "calling"} : op'[o] = [op[o] EXCEPT !.pc = pc]
    <3>1. CASE NotConnected(o) \/ LosesList(o) \/ CallFails(o)
      BY <1>1, <3>1 DEF NotConnected, LosesList, Dropped, CallFails, CallLost
    <3>2. CASE EndsList(o) \/ Send(o)
      BY <1>1, <3>2 DEF EndsList, Send
    <3>3. CASE Reply(o)
      BY <1>1, <3>3 DEF Reply
    <3>4. CASE \E k \in Kinds : Connect(o, k)
      BY <1>1, <3>4 DEF Connect
    <3>5. CASE /\ op[o].pc = "between"
               /\ op' = [op EXCEPT ![o] = IF op[o].kind = "prompts" THEN Finished(o)
                                          ELSE Paging(o, After(op[o].kind))]
      <4>1. op[o].kind \in Kinds
        BY <1>1, <3>5 DEF Placed
      <4>2. op[o].kind # "prompts" => After(op[o].kind) \in Kinds
        BY <4>1, KindAssumption DEF After
      <4>3. QED
        BY <1>1, <3>5, <4>2
    <3>6. QED
      BY <1>7, <3>1, <3>2, <3>3, <3>4, <3>5, KindAssumption
      DEF Step, ListTools, ListResources, ListResourceTemplates, ListPrompts,
        DiscoverForward, CallTool, ReadResource, GetPrompt, Listing, Discovering, Calling,
        DiscoverToolsOnSession, DiscoverResourcesOnSession, DiscoverResourceTemplatesOnSession,
        DiscoverPromptsOnSession
  <2>2. CASE op'[o] = Finished(o) \/ op'[o] = Failed(o)
    BY <1>2, <1>3, <2>2
  <2>3. CASE \E k \in Kinds : op'[o] = Paging(o, k)
    BY <1>2, <1>4, <2>3
  <2>4. CASE \E pc \in {"between", "calling"} : op'[o] = [op[o] EXCEPT !.pc = pc]
    BY <1>2, <1>5, <2>4
  <2>5. QED
    BY <2>1, <2>2, <2>3, <2>4
<1>8. QED
  BY <1>2, <1>6, <1>7

(* How the answers change when one operation does.                         *)
LEMMA AnswersChange ==
  ASSUME Known, NEW o \in Operations, \A q \in Operations : q # o => op'[q] = op[q]
  PROVE  /\ \A q \in Operations : q # o => Asked'[q] = Asked[q] /\ Answers'[q] = Answers[q]
         /\ Asked[o] = op[o].what /\ Asked'[o] = op'[o].what
         /\ Answers[o] = AnswerOf(o) /\ Answers'[o] = AnswerOf(o)'
         /\ Asked \in [Operations -> Sorts \cup {None}]
         /\ Asked = [q \in Operations |-> Asked[q]] /\ Asked' = [q \in Operations |-> Asked'[q]]
         /\ Answers = [q \in Operations |-> Answers[q]]
         /\ Answers' = [q \in Operations |-> Answers'[q]]
<1>1. Asked \in [Operations -> Sorts \cup {None}]
  BY OpIs DEF Asked, Known, Typed, TypeOK
<1>2. \A q \in Operations : q # o => AnswerOf(q)' = AnswerOf(q)
  BY DEF AnswerOf
<1>3. QED
  BY <1>1, <1>2 DEF Asked, Answers

LEMMA StepIsAnswer ==
  ASSUME Known, Known', NEW o \in Operations, Step(o)
  PROVE  [Abstract!Next]_<<catalog, Asked, Answers>>
<1>1. catalog' = catalog /\ \A q \in Operations : q # o => op'[q] = op[q]
  <2>1. "tools" \in DOMAIN Lists
    BY SortsAre DEF Sorts
  <2>2. QED
    BY <2>1, OneChanges
<1>2. op[o].pc \notin {"idle", "done"} /\ op'[o].what = op[o].what
  BY RunningStep
<1>3. Asked' = Asked
  BY <1>1, <1>2, AnswersChange
<1>4. Answers[o] = None
  BY <1>1, <1>2, AnswersChange DEF AnswerOf
<1>5. CASE op'[o].pc # "done"
  <2>1. AnswerOf(o)' = None
    BY <1>5 DEF AnswerOf
  <2>2. Answers'[o] = None
    BY <1>1, <2>1, AnswersChange
  <2>3. Answers' = Answers
    BY <1>1, <1>4, <2>2, AnswersChange
  <2>4. QED
    BY <1>1, <1>3, <2>3
<1>6. CASE op'[o].pc = "done"
  <2>1. \A k \in Kinds : /\ Abstract!Whole(k)' = Abstract!Whole(k)
                        /\ Abstract!Partial(k)' = Abstract!Partial(k)
    BY <1>1, CatalogSame
  <2>2. Abstract!Answers(AnswerOf(o), op[o].what)'
    BY <1>6, EndedNext
  <2>3. AnswerOf(o)' # None
    BY <1>6, EndedNext
  <2>4. Abstract!Answers(Answers'[o], Asked[o])
    <3>1. Answers'[o] = AnswerOf(o)' /\ Asked[o] = op'[o].what
      BY <1>1, <1>2, AnswersChange
    <3>2. Abstract!Answers(AnswerOf(o)', op'[o].what)
      <4> DEFINE a == AnswerOf(o)
      <4> HIDE DEF a
      <4>1. Abstract!Answers(a, op[o].what)'
        BY <2>2 DEF a
      <4>2. Abstract!Answers(a', op'[o].what)
        BY <2>1, <4>1, Zenon DEF Abstract!Answers, Abstract!Failure, Abstract!NoLists
      <4>3. QED
        BY <4>2 DEF a
    <3>3. QED
      BY <3>1, <3>2
  <2>5. Asked[o] # None
    BY <1>1, <1>2, AnswersChange DEF Known, ProgressInv, Progress
  <2>6. /\ Answers' = [Answers EXCEPT ![o] = Answers'[o]] /\ Answers'[o] # None
    BY <1>1, <2>3, AnswersChange
  <2>7. Abstract!Answer(o)
    BY <1>1, <1>3, <1>4, <2>4, <2>5, <2>6 DEF Abstract!Answer
  <2>8. QED
    BY <2>7 DEF Abstract!Next
<1>7. QED
  BY <1>5, <1>6

LEMMA BeginIsAsk ==
  ASSUME Known, NEW o \in Operations, NEW w \in DOMAIN Lists, Begin(o, w)
  PROVE  Abstract!Next
<1>1. catalog' = catalog /\ \A q \in Operations : q # o => op'[q] = op[q]
  BY OneChanges
<1>2. op'[o] = NewOp(w) /\ op[o].pc = "idle" /\ Progress(o)
  BY DEF Begin, Known, Typed, TypeOK, ProgressInv
<1>3. op'[o].what = w /\ op'[o].pc = "connecting" /\ op[o].what = None
  BY <1>2 DEF NewOp, Progress
<1>4. Answers' = Answers
  <2>1. AnswerOf(o)' = None /\ AnswerOf(o) = None
    BY <1>2, <1>3 DEF AnswerOf
  <2>2. Answers'[o] = Answers[o]
    BY <1>1, <2>1, AnswersChange
  <2>3. QED
    BY <1>1, <2>2, AnswersChange
<1>5. Asked[o] = None /\ Asked' = [Asked EXCEPT ![o] = w]
  BY <1>1, <1>3, AnswersChange
<1>6. Abstract!Ask(o)
  BY <1>1, <1>4, <1>5 DEF Abstract!Ask
<1>7. QED
  BY <1>6 DEF Abstract!Next

LEMMA AbstractNext ==
  ASSUME Known, Known', [Next]_vars
  PROVE  [Abstract!Next]_<<catalog, Asked, Answers>>
<1>1. CASE catalog' = catalog /\ op' = op
  BY <1>1 DEF Asked, Answers, AnswerOf
<1>2. ASSUME NEW o \in Operations, Execute(o)
      PROVE  catalog' = catalog /\ op' = op
  BY <1>2 DEF Execute
<1>3. QED
  BY <1>1, <1>2, StepIsAnswer, BeginIsAsk DEF Next, vars

\* Whatever a server answers, an operation of the client is answered once: a list in
\* full or not at all, a discovery with lists that end at a page (mcp_client.rs).
THEOREM Implements == Spec => ImplementsAnswers
<1>1. Spec => Init /\ [][Next]_vars
  BY DEF Spec
<1>2. [][Next]_vars /\ []Known => [][Abstract!Next]_<<catalog, Asked, Answers>>
  BY AbstractNext, PTL
<1>3. QED
  BY AbstractInit, InitKnown, NextKnown, <1>1, <1>2, PTL
  DEF ImplementsAnswers, Abstract!Spec, Abstract!answerVars
=============================================================================
