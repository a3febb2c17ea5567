----------------------------- MODULE MCUpstream -----------------------------
(***************************************************************************)
(* Upstream with one operation at a time on servers with two cursors: a    *)
(* list that fits, one that is longer than the limit, one whose cursor     *)
(* comes back with and without entries, a page without entries before the  *)
(* last one, an empty cursor.  The kinds differ only in their order, so    *)
(* every list takes each form for two kinds and the plain one for others.  *)
(***************************************************************************)
EXTENDS Upstream

CONSTANTS e1, e2, c1, c2

MCKinds   == {"tools", "resources", "templates", "prompts"}
MCEntry   == {e1, e2}
MCCursors == {c1, c2}

Book(first, next, second, last) ==
  [c \in MCCursors |-> IF c = c1 THEN [entries |-> first, next |-> next]
                                 ELSE [entries |-> second, next |-> last]]

Books == {
  Book(<<e1>>, None, <<>>, None),
  Book(<<e1>>, c2, <<e2>>, Empty),
  Book(<<e1, e2>>, c2, <<e1, e2>>, None),
  Book(<<>>, c2, <<e2>>, None),
  Book(<<e1>>, c1, <<>>, None),
  Book(<<>>, c2, <<>>, c1),
  Book(<<e1>>, c2, <<>>, c2),
  Book(<<>>, Empty, <<e2>>, None)}

MCCatalogs ==
  {[k \in MCKinds |-> IF k \in {"tools", "templates"} THEN a ELSE b] : a, b \in Books}
=============================================================================
