------------------------------- MODULE PrintPages ------------------------------
(***************************************************************************)
(* Dealing the measured rows of a printed document into pages              *)
(* (lib/print.ts, distribute; PrintDocument.tsx supplies the measures).    *)
(*                                                                         *)
(* The heights are given as the foot of each row: row i reaches from       *)
(* foot[i - 1] to foot[i] in the column the browser measured.  A page is   *)
(* the run of rows [first, last] on it, none when last = first - 1; the    *)
(* code keeps the same run as a list of indices.  A document without rows  *)
(* is one empty page, which PrintDocument knows without measuring it: the  *)
(* answer here too, as its totals alone fit on a page.                     *)
(***************************************************************************)
EXTENDS Integers, Sequences

CONSTANTS Documents,          \* [n, foot, totals]: rows, their feet, the totals' height
          FirstRoom, NextRoom \* what the masthead leaves of the first page; any other page

ASSUME PrintAssumption ==
  /\ FirstRoom \in Nat /\ NextRoom \in Nat /\ FirstRoom <= NextRoom
  /\ \A d \in Documents :
       /\ d.n \in Nat /\ d.totals \in Nat
       /\ d.foot \in [0 .. d.n -> Nat] /\ d.foot[0] = 0
       /\ \A i \in 1 .. d.n : d.foot[i - 1] <= d.foot[i]
       /\ d.n = 0 => d.totals <= FirstRoom

VARIABLES
  doc,      \* the document
  index,    \* the row to deal next
  current,  \* the run being filled
  used,     \* its height
  pages,    \* the runs that are full
  dealt     \* "rows", "totals", "done"

printVars == <<doc, index, current, used, pages, dealt>>

Run == [first : Nat, last : Nat]
Blank(i) == [first |-> i, last |-> i - 1]
IsBlank(run) == run.last < run.first
HeightOf(run) == IF IsBlank(run) THEN 0 ELSE doc.foot[run.last] - doc.foot[run.first - 1]
Height(i) == doc.foot[i] - doc.foot[i - 1]

roomOn(p) == IF p = 1 THEN FirstRoom ELSE NextRoom

PrintInit ==
  /\ doc \in Documents
  /\ index = 1 /\ current = Blank(1) /\ used = 0 /\ pages = <<>> /\ dealt = "rows"

\* The page under way is number Len(pages) + 1.
NeverBreaks == FALSE  \* faulty: one endless page
Breaks == ~IsBlank(current) /\ used + Height(index) > roomOn(Len(pages) + 1)

\* A row never straddles a break: it moves whole to the next page.
DealRow ==
  /\ dealt = "rows" /\ index <= doc.n
  /\ IF Breaks
     THEN /\ pages' = Append(pages, current)
          /\ current' = [first |-> index, last |-> index]
          /\ used' = Height(index)
     ELSE /\ current' = [first |-> current.first, last |-> index]
          /\ used' = used + Height(index)
          /\ UNCHANGED pages
  /\ index' = index + 1
  /\ UNCHANGED <<doc, dealt>>

\* The page under way, or one blank page for a document without rows.
LastPage ==
  /\ dealt = "rows" /\ index > doc.n
  /\ pages' = IF ~IsBlank(current) \/ pages = <<>> THEN Append(pages, current) ELSE pages
  /\ dealt' = "totals"
  /\ UNCHANGED <<doc, index, current, used>>

\* Totals that do not fit under the last row get a page of their own.
AddTotals ==
  /\ dealt = "totals"
  /\ pages' = IF doc.totals # 0 /\ HeightOf(pages[Len(pages)]) + doc.totals > roomOn(Len(pages))
              THEN Append(pages, Blank(index)) ELSE pages
  /\ dealt' = "done"
  /\ UNCHANGED <<doc, index, current, used>>

PrintNext == DealRow \/ LastPage \/ AddTotals
PrintSpec == PrintInit /\ [][PrintNext]_printVars

----------------------------------------------------------------------------

\* Rows come out in the order they went in, each on one page.
InOrder ==
  /\ \A p \in DOMAIN pages :
       pages[p].first = IF p = 1 THEN 1 ELSE pages[p - 1].last + 1
  /\ dealt # "rows" => pages[Len(pages)].last = doc.n

\* No page holds more than there is room for, but for a single row that is
\* higher than a page.
Fits ==
  \A p \in DOMAIN pages :
    pages[p].first < pages[p].last => HeightOf(pages[p]) <= roomOn(p)

\* The totals stand under the last rows with room to spare, or on a page
\* without rows.
TotalsFit ==
  dealt = "done" /\ doc.totals # 0 =>
    \/ IsBlank(pages[Len(pages)])
    \/ HeightOf(pages[Len(pages)]) + doc.totals <= roomOn(Len(pages))

\* Only the last page may be without rows.
NoBlankBetween == \A p \in DOMAIN pages : IsBlank(pages[p]) => p = Len(pages)

PagesHold == InOrder /\ Fits /\ TotalsFit /\ NoBlankBetween
================================================================================
