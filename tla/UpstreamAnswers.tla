-------------------------- MODULE UpstreamAnswers --------------------------
(***************************************************************************)
(* What the rest of the server may expect of the MCP client                *)
(* (apis/src/mcp_client.rs), whatever the pages, cursors and failures of   *)
(* an upstream server: each operation is answered once.  A list that is    *)
(* asked for alone is answered in full or not at all; a discovery is       *)
(* answered with a list per kind, each of which may end early, at a page;  *)
(* "in full" is up to the limits of the client.                            *)
(***************************************************************************)
EXTENDS Naturals, Sequences

CONSTANTS
  Operations,   \* operations of the client
  Kinds,        \* the kinds of entries a server lists
  Lists,        \* Lists[w]: the kinds that an operation of sort w asks for
  Discovery,    \* the sort of a discovery, one of DOMAIN Lists
  First,        \* the cursor of the first page
  MaxEntries,   \* MAX_TOOLS, MAX_RESOURCES, MAX_RESOURCE_TEMPLATES, MAX_PROMPTS
  MaxPages,     \* the pages a client asks for at most
  None

VARIABLES
  catalog,      \* catalog[k][c]: the page of kind k that the server has at cursor c
  asked,        \* asked[o]: what operation o asks for, None before it begins
  answer        \* answer[o]: None, a failure, or the lists it returns

answerVars == <<catalog, asked, answer>>

NoLists    == [k \in Kinds |-> <<>>]
Failure    == [ok |-> FALSE, lists |-> NoLists]
Success(l) == [ok |-> TRUE, lists |-> l]

\* Entries(k)[n][c]: the entries of n pages from the one at cursor c on, each page
\* at the cursor that the one before it names.
Entries(k) ==
  LET walk[n \in 0..MaxPages] ==
        [c \in DOMAIN catalog[k] |->
           IF n = 0 THEN <<>>
           ELSE catalog[k][c].entries \o (IF catalog[k][c].next \in DOMAIN catalog[k]
                                          THEN walk[n - 1][catalog[k][c].next] ELSE <<>>)]
  IN walk

UpTo(s, n) == SubSeq(s, 1, IF Len(s) < n THEN Len(s) ELSE n)
Whole(k)   == UpTo(Entries(k)[MaxPages][First], MaxEntries)
Partial(k) == {UpTo(Entries(k)[n][First], MaxEntries) : n \in 0..MaxPages}

\* a answers an operation of sort w.
Answers(a, w) ==
  \/ a = Failure
  \/ /\ a.ok
     /\ \A k \in Kinds :
          a.lists[k] \in IF k \notin Lists[w] THEN {<<>>}
                         ELSE IF w = Discovery THEN Partial(k) ELSE {Whole(k)}

Init ==
  /\ asked = [o \in Operations |-> None]
  /\ answer = [o \in Operations |-> None]

Ask(o) ==
  /\ asked[o] = None
  /\ \E w \in DOMAIN Lists : asked' = [asked EXCEPT ![o] = w]
  /\ UNCHANGED <<catalog, answer>>

Answer(o) ==
  /\ asked[o] # None /\ answer[o] = None /\ answer'[o] # None
  /\ Answers(answer'[o], asked[o])
  /\ answer' = [answer EXCEPT ![o] = answer'[o]]
  /\ UNCHANGED <<catalog, asked>>

Next == \E o \in Operations : Ask(o) \/ Answer(o)
Spec == Init /\ [][Next]_answerVars
=============================================================================
