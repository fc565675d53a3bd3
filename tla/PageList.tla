------------------------------ MODULE PageList ------------------------------
(***************************************************************************)
(* The page list of fdcache.cpp: which parts of a local (cache or          *)
(* temporary) file already hold the object's content.  A page list is a    *)
(* sequence of pages, each an extent of the file with one loaded flag.     *)
(* This module holds the pure operations of class PageList; PageListSpec   *)
(* runs them as a state machine and compares them with a plain set of      *)
(* loaded bytes.                                                           *)
(***************************************************************************)
EXTENDS Integers, Sequences, SequencesExt

Page(offset, bytes, loaded) ==
  [offset |-> offset, bytes |-> bytes, loaded |-> loaded]

\* fdpage::next and fdpage::end.  An empty page ends at 0, not before it.
PageNext(p) == p.offset + p.bytes
PageEnd(p)  == IF p.bytes > 0 THEN PageNext(p) - 1 ELSE 0

\* PageList::Init
InitPages(size, loaded) == <<Page(0, size, loaded)>>

\* PageList::Size: where the last page ends.
ListSize(ps) == IF ps = <<>> THEN 0 ELSE PageNext(Last(ps))

-----------------------------------------------------------------------------
\* PageList::Compress: a page is merged into its predecessor when both have
\* the same flag.
MergePage(ps, p) ==
  IF ps # <<>> /\ Last(ps).loaded = p.loaded
    THEN Append(Front(ps), [Last(ps) EXCEPT !.bytes = @ + p.bytes])
    ELSE Append(ps, p)

Compress(ps) == FoldLeft(MergePage, <<>>, ps)

\* PageList::Parse: split the page that contains pos, unless one starts there.
Parse(ps, pos) ==
  LET within == {i \in DOMAIN ps : ps[i].offset < pos /\ pos < PageNext(ps[i])}
      starts == {i \in DOMAIN ps : ps[i].offset = pos}
      i == CHOOSE i \in within : TRUE
      left  == Page(ps[i].offset, pos - ps[i].offset, ps[i].loaded)
      right == Page(pos, PageNext(ps[i]) - pos, ps[i].loaded)
  IN IF starts # {} \/ within = {}
       THEN ps
       ELSE SubSeq(ps, 1, i - 1) \o <<left, right>> \o SubSeq(ps, i + 1, Len(ps))

\* The third branch of PageList::Resize: drop what lies past size, and
\* shorten the page that size falls into.
CutPage(ps, p, size) ==
  IF PageNext(p) <= size THEN Append(ps, p)
  ELSE IF p.offset < size THEN Append(ps, [p EXCEPT !.bytes = size - p.offset])
  ELSE ps

CutPages(ps, size) ==
  LET Cut(kept, p) == CutPage(kept, p, size)
  IN FoldLeft(Cut, <<>>, ps)

\* The variant of Resize that keeps the merge of equal neighbours for later.
ResizeUncompressed(ps, size, loaded) ==
  LET total == ListSize(ps) IN
  IF total = 0 THEN InitPages(size, loaded)
  ELSE IF total < size THEN Append(ps, Page(total, size - total, loaded))
  ELSE IF size < total THEN CutPages(ps, size)
  ELSE ps

\* PageList::Resize
Resize(ps, size, loaded) == Compress(ResizeUncompressed(ps, size, loaded))

-----------------------------------------------------------------------------
\* The loop below with a flag that runs into the page after the area.
MarkInnerInclusive(ps, start, size, loaded) ==
  LET split == Parse(Parse(ps, start), start + size)
      hit(p) == ~(PageEnd(p) < start) /\ ~(start + size < p.offset)
  IN [i \in DOMAIN split |->
        IF hit(split[i]) THEN [split[i] EXCEPT !.loaded = loaded] ELSE split[i]]

\* The loop of SetPageLoadedStatus over an inner area, after both its ends
\* have been made page boundaries.
MarkInner(ps, start, size, loaded) ==
  LET split == Parse(Parse(ps, start), start + size)
      hit(p) == ~(PageEnd(p) < start) /\ ~(start + size <= p.offset)
  IN [i \in DOMAIN split |->
        IF hit(split[i]) THEN [split[i] EXCEPT !.loaded = loaded] ELSE split[i]]

\* PageList::SetPageLoadedStatus with is_compress = true: the area lies past
\* the end (a hole before it stays unloaded), reaches the end, or is inside.
SetPageLoadedStatus(ps, start, size, loaded) ==
  LET now == ListSize(ps)
      grown == IF now < start THEN Resize(ps, start, FALSE) ELSE ps
  IN Compress(
       IF now <= start THEN Resize(grown, start + size, loaded)
       ELSE IF now <= start + size
         THEN Resize(Resize(ps, start, FALSE), start + size, loaded)
       ELSE MarkInner(ps, start, size, loaded))

-----------------------------------------------------------------------------
\* "size 0 means to the end of the list", which is how the queries begin.
QueryNext(ps, start, size) ==
  IF size = 0 /\ start < ListSize(ps) THEN ListSize(ps) ELSE start + size

\* PageList::IsPageLoaded: the first page at or after start that is unloaded
\* decides, unless a loaded page that covers the end of the area comes first.
IsPageLoaded(ps, start, size) ==
  LET seen == {i \in DOMAIN ps : ~(PageEnd(ps[i]) < start)}
      Stops(i) == ps[i].loaded /\ size # 0 /\ start + size <= PageNext(ps[i])
  IN \A i \in seen :
       ps[i].loaded \/ \E j \in seen : j < i /\ Stops(j)

\* PageList::FindUnloadedPage: the first unloaded page that ends at or after
\* start, or the empty sequence when it finds none.
FindUnloadedPage(ps, start) ==
  LET found == {i \in DOMAIN ps : start <= PageEnd(ps[i]) /\ ~ps[i].loaded}
  IN IF found = {} THEN <<>> ELSE <<ps[Min(found)]>>

\* The pages the two loops below do not pass over, and the ends of what such a
\* page has of the area.
Visited(p, start, next) == PageNext(p) > start /\ p.offset < next /\ ~p.loaded
From(p, start) == IF p.offset < start THEN start ELSE p.offset
Upto(p, next)  == IF PageNext(p) < next THEN PageNext(p) ELSE next

\* The sum below with a page's whole size where only a part is in the area.
GetTotalWholePages(ps, start, size) ==
  LET next == QueryNext(ps, start, size)
      AddPage(total, p) == IF Visited(p, start, next) THEN total + p.bytes ELSE total
  IN FoldLeft(AddPage, 0, ps)

\* PageList::GetTotalUnloadedPageSize: the four cases of its inner if are the
\* overlap of the page with the area.
AddOverlap(total, p, start, next) ==
  IF Visited(p, start, next) THEN total + (Upto(p, next) - From(p, start)) ELSE total

GetTotalUnloadedPageSize(ps, start, size) ==
  LET Add(total, p) == AddOverlap(total, p, start, QueryNext(ps, start, size))
  IN FoldLeft(Add, 0, ps)

\* PageList::GetUnloadedPages: the unloaded extents inside the area, an
\* extent merged with the one it touches.
AddArea(areas, p, start, next) ==
  LET from == From(p, start)
      upto == Upto(p, next)
  IN IF ~Visited(p, start, next) THEN areas
     ELSE IF areas # <<>> /\ PageNext(Last(areas)) = from
       THEN Append(Front(areas), [Last(areas) EXCEPT !.bytes = @ + upto - from])
     ELSE Append(areas, Page(from, upto - from, FALSE))

GetUnloadedPages(ps, start, size) ==
  LET Add(areas, p) == AddArea(areas, p, start, QueryNext(ps, start, size))
  IN FoldLeft(Add, <<>>, ps)
=============================================================================
