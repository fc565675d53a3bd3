---------------------------- MODULE PageListSpec ----------------------------
(***************************************************************************)
(* The page list as a state machine: every sequence of the calls FdEntity  *)
(* makes on it.  The refinement and the query invariants say that the list *)
(* of extents behaves as the set of loaded bytes of PageMap.               *)
(***************************************************************************)
EXTENDS PageList, FiniteSets

CONSTANT MaxSize            \* the largest file of the instance
ASSUME MaxSizePositive == MaxSize \in Nat \ {0}

VARIABLES
  pages,
  last            \* history: the call made last

vars == <<pages, last>>

Sizes == 0 .. MaxSize

Call(op, start, count, flag) == <<op, start, count, flag>>

\* The constructor PageList(size, is_loaded).
Init == \E n \in Sizes, flag \in BOOLEAN :
          pages = InitPages(n, flag) /\ last = Call("new", 0, 0, FALSE)

\* SetAllStatus and Clear/Open of an entity reinitialise the list.
Reinitialise(n, flag) ==
  pages' = InitPages(n, flag) /\ last' = Call("init", 0, n, flag)

\* FdEntity::Open and Ftruncate resize it.
SetSize(n, flag) ==
  pages' = Resize(pages, n, flag) /\ last' = Call("resize", 0, n, flag)

\* Load and Write mark an area loaded, a forced read marks it unloaded.
Mark(start, count, flag) ==
  /\ start + count <= MaxSize
  /\ pages' = SetPageLoadedStatus(pages, start, count, flag)
  /\ last' = Call("mark", start, count, flag)

Next ==
  \/ \E n \in Sizes, flag \in BOOLEAN : Reinitialise(n, flag)
  \/ \E n \in Sizes, flag \in BOOLEAN : SetSize(n, flag)
  \/ \E start \in Sizes, count \in Sizes, flag \in BOOLEAN :
       Mark(start, count, flag)

Spec == Init /\ [][Next]_vars

-----------------------------------------------------------------------------
PageBytes(p) == p.offset .. (PageNext(p) - 1)

LoadedBytes(ps) == UNION {PageBytes(ps[i]) : i \in {j \in DOMAIN ps : ps[j].loaded}}

Unloaded(start, next) ==
  {b \in 0 .. (ListSize(pages) - 1) : start <= b /\ b < next} \ LoadedBytes(pages)

Area(start, count) == Unloaded(start, QueryNext(pages, start, count))

\* The pages tile the file without gap or overlap, neighbours differ in their
\* flag, and only a file of size 0 has an empty page: what every loop over the
\* list relies on (PageEnd of an empty page is 0, so an empty page in the
\* middle would be skipped or marked by mistake).
Canonical ==
  /\ pages \in Seq([offset : Nat, bytes : Nat, loaded : BOOLEAN])
  /\ pages # <<>> => pages[1].offset = 0
  /\ \A i \in 1 .. (Len(pages) - 1) :
       /\ PageNext(pages[i]) = pages[i + 1].offset
       /\ pages[i].loaded # pages[i + 1].loaded
  /\ \A i \in DOMAIN pages : pages[i].bytes = 0 => Len(pages) = 1

\* For every area, the extents that Load downloads and the byte count the
\* disk-space checks use are exactly the unloaded bytes of the area; a
\* non-empty area is "loaded" iff none of its bytes is unloaded; and the first
\* unloaded page found from start has the first unloaded byte not before it.
QueriesAgree ==
  \A start \in Sizes :
    /\ \A count \in Sizes :
         LET extents == GetUnloadedPages(pages, start, count) IN
         /\ UNION {PageBytes(extents[i]) : i \in DOMAIN extents} = Area(start, count)
         /\ \A i \in 1 .. (Len(extents) - 1) :
              PageNext(extents[i]) < extents[i + 1].offset
         /\ GetTotalUnloadedPageSize(pages, start, count) = Cardinality(Area(start, count))
         /\ count > 0 /\ start + count <= ListSize(pages) =>
              (IsPageLoaded(pages, start, count) <=> Area(start, count) = {})
    /\ LET found == FindUnloadedPage(pages, start)
           rest  == Unloaded(start, ListSize(pages))
       IN ListSize(pages) > 0 =>
            IF rest = {} THEN found = <<>>
            ELSE found # <<>> /\ Min(rest) \in PageBytes(found[1])

\* The list of extents implements the set of loaded bytes: no sequence of
\* splits, cuts and merges loses or invents a loaded byte, and each call
\* changes exactly the bytes it names.
Map == INSTANCE PageMap WITH size <- ListSize(pages), loaded <- LoadedBytes(pages)
ImplementsPageMap == Map!Spec
=============================================================================
