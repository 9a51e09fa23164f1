------------------------------ MODULE ScreensProofs ----------------------------
(***************************************************************************)
(* Two screens that keep a state of their own, whatever is put into them.  *)
(*                                                                         *)
(* The payment form, for any enrolments and any order of answers: the      *)
(* newest balance stands, and one payment is recorded at most for each     *)
(* answer that was lost, and one more.  The printed pages, for documents   *)
(* of any length and rows of any height: they hold every row once.         *)
(***************************************************************************)
EXTENDS PaymentEntry, PrintPages, TLAPS

(* The payment form.                                                       *)

Ask == [n : 1 .. MaxAsks, id : Enrolments, live : BOOLEAN]

\* What is asked, held and counted; the flags need no type.
EntryRanges ==
  /\ enrollmentId \in Enrolments \cup {Nothing}
  /\ asks \subseteq Ask
  /\ fetched \in [n : 1 .. MaxAsks, id : Enrolments] \cup {Nothing}
  /\ sending \in {"no", "out", "recorded", "refused"}
  /\ asked \in 0 .. MaxAsks
  /\ entries \in Nat /\ lost \in Nat

\* The request made last is the only one that is heeded; it is about the
\* choice as it stands.
LastIsLive ==
  \A a \in asks :
    /\ a.n <= asked
    /\ a.live \/ a.n = asked => a = [n |-> asked, id |-> enrollmentId, live |-> TRUE]

\* Once its answer is there, it is what is held.
Newest ==
  newest => /\ fetched = [n |-> asked, id |-> enrollmentId]
            /\ fetched \in [n : 1 .. MaxAsks, id : Enrolments]

\* While the button can be pressed, and while a press has recorded nothing
\* yet, every payment recorded has its answer lost.
EachIsLost ==
  /\ entries <= 1 + lost
  /\ ~busy \/ sending \in {"out", "refused"} => entries <= lost
  /\ sending # "no" => busy

EntryInv == EntryRanges /\ LastIsLive /\ Newest /\ EachIsLost

LEMMA EntryInitInv == EntryInit => EntryInv
<1> SUFFICES ASSUME EntryInit PROVE EntryInv
  OBVIOUS
<1>1. EntryRanges
  BY EntryAssumption DEF EntryInit, EntryRanges
<1>2. LastIsLive /\ Newest
  BY DEF EntryInit, LastIsLive, Newest
<1>3. EachIsLost
  <2>1. sending = "no" /\ entries = 0 /\ lost = 0
    BY DEF EntryInit
  <2>2. entries <= 1 + lost /\ entries <= lost
    BY <2>1
  <2> QED BY <2>1, <2>2, Zenon DEF EachIsLost
<1> QED BY <1>1, <1>2, <1>3 DEF EntryInv

LEMMA ChooseOK ==
  ASSUME EntryInv, NEW e \in Enrolments, ChooseEnrolment(e)
  PROVE  EntryInv'
<1> DEFINE new == [n |-> asked + 1, id |-> e, live |-> TRUE]
<1>1. /\ asked' = asked + 1 /\ asked < MaxAsks /\ enrollmentId' = e /\ newest' = FALSE
      /\ asks' = Unmark \cup {new} /\ asked \in Nat
      /\ UNCHANGED <<fetched, paymentVars>>
  BY EntryAssumption DEF ChooseEnrolment, EntryInv, EntryRanges
<1>2. new \in Ask /\ asked' \in 0 .. MaxAsks
  BY <1>1, EntryAssumption DEF Ask
<1>3. ASSUME NEW b \in Unmark PROVE b \in Ask /\ b.n <= asked /\ ~b.live
  <2>1. PICK a \in asks : b = [a EXCEPT !.live = FALSE]
    BY DEF Unmark
  <2>2. a \in Ask /\ a.n <= asked
    BY DEF EntryInv, EntryRanges, LastIsLive
  <2> QED BY <2>1, <2>2 DEF Ask
<1>4. EntryRanges'
  BY <1>1, <1>2, <1>3 DEF EntryInv, EntryRanges, paymentVars
<1>5. LastIsLive'
  <2> SUFFICES ASSUME NEW a \in asks'
               PROVE  /\ a.n <= asked'
                      /\ a.live \/ a.n = asked' =>
                           a = [n |-> asked', id |-> enrollmentId', live |-> TRUE]
    BY DEF LastIsLive
  <2>1. CASE a = new
    BY <2>1, <1>1
  <2>2. CASE a \in Unmark
    <3>1. a.n \in Nat /\ a.n <= asked /\ ~a.live
      BY <2>2, <1>3, EntryAssumption DEF Ask
    <3> QED BY <3>1, <1>1
  <2> QED BY <2>1, <2>2, <1>1
<1>6. Newest' /\ EachIsLost'
  BY <1>1 DEF EntryInv, Newest, EachIsLost, paymentVars
<1> QED BY <1>4, <1>5, <1>6 DEF EntryInv

LEMMA ArrivesOK ==
  ASSUME EntryInv, NEW a \in asks, BalanceArrives(a)
  PROVE  EntryInv'
<1>1. /\ asks' = asks \ {a} /\ newest' = (newest \/ a.n = asked)
      /\ fetched' = IF a.live THEN [n |-> a.n, id |-> a.id] ELSE fetched
      /\ UNCHANGED <<enrollmentId, asked, paymentVars>>
  BY DEF BalanceArrives, Heeded
<1>2. a \in Ask /\ [n |-> a.n, id |-> a.id] \in [n : 1 .. MaxAsks, id : Enrolments]
  BY DEF EntryInv, EntryRanges, Ask
<1>3. a.live \/ a.n = asked => a.n = asked /\ a.id = enrollmentId /\ a.live
  BY DEF EntryInv, LastIsLive
<1>4. EntryRanges'
  BY <1>1, <1>2 DEF EntryInv, EntryRanges, paymentVars
<1>5. LastIsLive' /\ EachIsLost'
  BY <1>1 DEF EntryInv, LastIsLive, EachIsLost, paymentVars
<1>6. Newest'
  <2>1. CASE a.live
    BY <2>1, <1>1, <1>2, <1>3 DEF Newest
  <2>2. CASE ~a.live
    BY <2>2, <1>1, <1>3 DEF EntryInv, EntryRanges, Newest
  <2> QED BY <2>1, <2>2
<1> QED BY <1>4, <1>5, <1>6 DEF EntryInv

LEMMA FailsOK ==
  ASSUME EntryInv, NEW a \in asks, BalanceFails(a)
  PROVE  EntryInv'
BY DEF BalanceFails, EntryInv, EntryRanges, LastIsLive, Newest, EachIsLost, paymentVars

\* The steps of the payment call: the balance stays as it was.
LEMMA PaymentOK ==
  ASSUME EntryInv, Submit \/ PaymentRecorded \/ PaymentRefused \/ Succeed \/ Fail \/ Leave
  PROVE  EntryInv'
<1>1. UNCHANGED balanceVars
  BY DEF Submit, PaymentRecorded, PaymentRefused, Succeed, Fail, Leave
<1>2. LastIsLive' /\ Newest'
  BY <1>1 DEF balanceVars, EntryInv, LastIsLive, Newest
<1>3. EntryRanges /\ EachIsLost
  BY DEF EntryInv
<1>4. CASE Submit
  <2>1. EntryRanges'
    BY <1>1, <1>3, <1>4 DEF Submit, balanceVars, EntryRanges
  <2>2. EachIsLost'
    BY <1>3, <1>4 DEF Submit, EntryRanges, EachIsLost
  <2> QED BY <1>2, <2>1, <2>2 DEF EntryInv
<1>5. CASE PaymentRecorded
  <2>1. EntryRanges'
    BY <1>1, <1>3, <1>5 DEF PaymentRecorded, balanceVars, EntryRanges
  <2>2. EachIsLost'
    BY <1>3, <1>5 DEF PaymentRecorded, EntryRanges, EachIsLost
  <2> QED BY <1>2, <2>1, <2>2 DEF EntryInv
<1>6. CASE PaymentRefused
  <2>1. EntryRanges'
    BY <1>1, <1>3, <1>6 DEF PaymentRefused, balanceVars, EntryRanges
  <2>2. EachIsLost'
    BY <1>3, <1>6 DEF PaymentRefused, EntryRanges, EachIsLost
  <2> QED BY <1>2, <2>1, <2>2 DEF EntryInv
<1>7. CASE Succeed
  <2>1. EntryRanges'
    BY <1>1, <1>3, <1>7 DEF Succeed, StaysDisabled, balanceVars, EntryRanges
  <2>2. EachIsLost'
    BY <1>3, <1>7 DEF Succeed, StaysDisabled, EntryRanges, EachIsLost
  <2> QED BY <1>2, <2>1, <2>2 DEF EntryInv
<1>8. CASE Fail
  <2>1. EntryRanges'
    BY <1>1, <1>3, <1>8 DEF Fail, balanceVars, EntryRanges
  <2>2. EachIsLost'
    <3>1. entries' = entries /\ sending' = "no" /\ entries \in Nat /\ lost \in Nat
      BY <1>3, <1>8 DEF Fail, EntryRanges
    <3>2. entries <= lost'
      <4>1. CASE sending = "refused" /\ UNCHANGED lost
        BY <4>1, <1>3 DEF EachIsLost
      <4>2. CASE lost' = lost + 1
        BY <4>2, <3>1, <1>3 DEF EachIsLost
      <4> QED BY <4>1, <4>2, <1>8 DEF Fail
    <3>3. entries <= 1 + lost'
      BY <3>1, <3>2, <2>1 DEF EntryRanges
    <3> QED BY <3>1, <3>2, <3>3, Zenon DEF EachIsLost
  <2> QED BY <1>2, <2>1, <2>2 DEF EntryInv
<1>9. CASE Leave
  <2>1. EntryRanges'
    BY <1>1, <1>3, <1>9 DEF Leave, balanceVars, EntryRanges
  <2>2. EachIsLost'
    BY <1>3, <1>9 DEF Leave, EntryRanges, EachIsLost
  <2> QED BY <1>2, <2>1, <2>2 DEF EntryInv
<1> QED BY <1>4, <1>5, <1>6, <1>7, <1>8, <1>9

LEMMA EntryNextInv == EntryInv /\ [EntryNext]_entryVars => EntryInv'
<1> SUFFICES ASSUME EntryInv, [EntryNext]_entryVars PROVE EntryInv'
  OBVIOUS
<1>1. CASE UNCHANGED entryVars
  BY <1>1 DEF entryVars, EntryInv, EntryRanges, LastIsLive, Newest, EachIsLost
<1>2. CASE EntryNext
  BY <1>2, ChooseOK, ArrivesOK, FailsOK, PaymentOK DEF EntryNext
<1> QED BY <1>1, <1>2

LEMMA EntryInvHolds == EntrySpec => []EntryInv
BY EntryInitInv, EntryNextInv, PTL DEF EntrySpec

\* Whatever answers about earlier choices arrive late, the balance asked for
\* last is on show from the moment it arrives (PaymentForm.tsx, the effect).
THEOREM NewestBalanceAlwaysStands == EntrySpec => []NewestBalanceStands
<1>1. EntryInv => NewestBalanceStands
  BY EntryAssumption DEF EntryInv, Newest, NewestBalanceStands, Balance
<1> QED BY <1>1, EntryInvHolds, PTL

\* The form by itself records one payment, however often it is pressed.
THEOREM TwiceOnlyAfterALostAnswerAlways == EntrySpec => []TwiceOnlyAfterALostAnswer
<1>1. EntryInv => TwiceOnlyAfterALostAnswer
  BY DEF EntryInv, EachIsLost, TwiceOnlyAfterALostAnswer
<1> QED BY <1>1, EntryInvHolds, PTL

----------------------------------------------------------------------------
(* Printed pages.                                                          *)

\* Where the page under way, or the next one, starts.
NextRow == IF pages = <<>> THEN 1 ELSE pages[Len(pages)].last + 1

\* The pages that are full: the type, and what is true of each.
FullPage(p) ==
  /\ pages[p].first = IF p = 1 THEN 1 ELSE pages[p - 1].last + 1
  /\ pages[p].last <= doc.n
  /\ pages[p].first < pages[p].last => HeightOf(pages[p]) <= roomOn(p)

\* The page under way, while there are rows to deal: it ends at the last row
\* dealt, and its height is kept along.
UnderWay ==
  /\ current \in Run
  /\ index \in 1 .. doc.n + 1
  /\ current.last = index - 1
  /\ current.first = NextRow
  /\ 1 <= current.first /\ current.first <= index
  /\ used = HeightOf(current)
  /\ current.first < current.last => used <= roomOn(Len(pages) + 1)
  /\ \A p \in DOMAIN pages : ~IsBlank(pages[p])
  /\ IsBlank(current) => pages = <<>> \/ index > doc.n

\* All rows are out, and only a document without rows has a blank page.
RowsOut ==
  /\ index = doc.n + 1
  /\ pages # <<>>
  /\ pages[Len(pages)].last = doc.n
  /\ \A p \in DOMAIN pages : IsBlank(pages[p]) => p = 1 /\ Len(pages) = 1 /\ doc.n = 0

\* The inductive invariant.  PagesHold speaks of full pages only; a page is
\* full of what the code took for its height and its next row while filling it.
PrintInv ==
  /\ doc \in Documents
  /\ pages \in Seq(Run)
  /\ dealt \in {"rows", "totals", "done"}
  /\ \A p \in DOMAIN pages : FullPage(p)
  /\ dealt = "rows" => UnderWay
  /\ dealt = "totals" => RowsOut
  /\ dealt = "done" => PagesHold

\* What is known of the document at hand.
LEMMA TheDocument ==
  ASSUME doc \in Documents
  PROVE  /\ doc.n \in Nat /\ doc.totals \in Nat
         /\ doc.foot \in [0 .. doc.n -> Nat] /\ doc.foot[0] = 0
         /\ \A i \in 1 .. doc.n : doc.foot[i - 1] <= doc.foot[i]
         /\ doc.n = 0 => doc.totals <= FirstRoom
         /\ FirstRoom \in Nat /\ NextRoom \in Nat
BY PrintAssumption

\* What is appended stands at the end, and the rest stays where it was.
LEMMA AppendPage ==
  ASSUME pages \in Seq(Run), NEW run \in Run
  PROVE  LET longer == Append(pages, run) IN
         /\ longer \in Seq(Run)
         /\ Len(longer) = Len(pages) + 1 /\ Len(pages) \in Nat
         /\ DOMAIN longer = 1 .. Len(pages) + 1 /\ DOMAIN pages = 1 .. Len(pages)
         /\ longer[Len(pages) + 1] = run
         /\ \A p \in 1 .. Len(pages) : longer[p] = pages[p]
         /\ \A p \in 1 .. Len(pages) : pages[p] \in Run
         /\ longer # <<>>
         /\ pages = <<>> <=> Len(pages) = 0
OBVIOUS

LEMMA PrintInitInv == PrintInit => PrintInv
BY TheDocument DEF PrintInit, PrintInv, UnderWay, FullPage, Blank, Run, IsBlank, HeightOf, NextRow

\* A row goes to the page under way if it fits or is alone there, and
\* otherwise closes that page and starts the next.
LEMMA DealRowKeeps ==
  ASSUME PrintInv, DealRow
  PROVE  PrintInv'
<1>0. /\ doc \in Documents /\ pages \in Seq(Run) /\ UnderWay /\ dealt = "rows" /\ index <= doc.n
      /\ UNCHANGED <<doc, dealt>> /\ index' = index + 1
      /\ \A p \in DOMAIN pages : FullPage(p)
  BY DEF PrintInv, DealRow
<1>1. /\ doc.n \in Nat /\ doc.foot \in [0 .. doc.n -> Nat]
      /\ \A i \in 1 .. doc.n : doc.foot[i - 1] <= doc.foot[i]
      /\ FirstRoom \in Nat /\ NextRoom \in Nat
  BY <1>0, TheDocument
<1>2. index \in 1 .. doc.n /\ Height(index) \in Nat
  <2>1. index \in 1 .. doc.n
    BY <1>0, <1>1 DEF UnderWay
  <2>2. /\ doc.foot[index] \in Nat /\ doc.foot[index - 1] \in Nat
        /\ doc.foot[index - 1] <= doc.foot[index]
    BY <2>1, <1>1
  <2> QED BY <2>1, <2>2 DEF Height
<1>3. CASE Breaks
  <2>1. /\ pages' = Append(pages, current)
        /\ current' = [first |-> index, last |-> index]
        /\ used' = Height(index)
    BY <1>3, <1>0 DEF DealRow
  <2>2. current \in Run /\ ~IsBlank(current) /\ current.last = index - 1
    BY <1>0, <1>3 DEF UnderWay, Breaks
  <2>3. /\ pages' \in Seq(Run)
        /\ Len(pages') = Len(pages) + 1 /\ Len(pages) \in Nat
        /\ DOMAIN pages' = 1 .. Len(pages) + 1 /\ DOMAIN pages = 1 .. Len(pages)
        /\ pages'[Len(pages) + 1] = current
        /\ \A p \in 1 .. Len(pages) : pages'[p] = pages[p]
        /\ \A p \in 1 .. Len(pages) : pages[p] \in Run
        /\ pages' # <<>>
        /\ pages = <<>> <=> Len(pages) = 0
    BY <2>1, <2>2, <1>0, AppendPage
  <2>4. \A p \in DOMAIN pages' : FullPage(p)'
    <3> SUFFICES ASSUME NEW p \in 1 .. Len(pages) + 1 PROVE FullPage(p)'
      BY <2>3
    <3>1. CASE p \in 1 .. Len(pages)
      <4>1. FullPage(p) /\ pages'[p] = pages[p] /\ (p # 1 => pages'[p - 1] = pages[p - 1])
        BY <3>1, <2>3, <1>0
      <4> QED BY <4>1, <1>0 DEF FullPage, HeightOf, IsBlank, roomOn
    <3>2. CASE p = Len(pages) + 1
      <4>1. pages'[p] = current /\ (p # 1 => pages'[p - 1] = pages[Len(pages)])
        BY <3>2, <2>3
      <4>2. current.first = IF p = 1 THEN 1 ELSE pages'[p - 1].last + 1
        BY <4>1, <3>2, <2>3, <1>0 DEF UnderWay, NextRow
      <4>3. current.first < current.last => HeightOf(current) <= roomOn(p)
        BY <3>2, <1>0 DEF UnderWay
      <4> QED BY <4>1, <4>2, <4>3, <2>2, <1>0, <1>1, <1>2 DEF FullPage, HeightOf, IsBlank, roomOn, Run
    <3> QED BY <3>1, <3>2
  <2>5. UnderWay'
    <3>1. current' \in Run /\ current'.first = index /\ current'.last = index
      BY <2>1, <1>2, <1>1 DEF Run
    <3>2. NextRow' = index
      BY <2>3, <2>2, <1>2, <1>1 DEF NextRow
    <3>3. used' = HeightOf(current)'
      BY <3>1, <2>1, <1>0, <1>2 DEF HeightOf, IsBlank, Height
    <3>4. \A p \in DOMAIN pages' : ~IsBlank(pages'[p])
      BY <2>2, <2>3, <1>0 DEF UnderWay, IsBlank
    <3> QED BY <3>1, <3>2, <3>3, <3>4, <1>0, <1>1, <1>2 DEF UnderWay, IsBlank
  <2> QED BY <2>3, <2>4, <2>5, <1>0 DEF PrintInv
<1>4. CASE ~Breaks
  <2>1. /\ pages' = pages
        /\ current' = [first |-> current.first, last |-> index]
        /\ used' = used + Height(index)
    BY <1>4, <1>0 DEF DealRow
  <2>2. /\ current' \in Run /\ current'.first = current.first /\ current'.last = index
        /\ 1 <= current.first /\ current.first <= index /\ current.first \in Nat
    BY <2>1, <1>0, <1>1, <1>2 DEF UnderWay, Run
  <2>3. used' = HeightOf(current)' /\ used \in Int
    <3>1. /\ doc.foot[current.first - 1] \in Nat
          /\ doc.foot[index - 1] \in Nat /\ doc.foot[index] \in Nat
      <4>1. {current.first - 1, index - 1, index} \subseteq 0 .. doc.n
        BY <2>2, <1>1, <1>2
      <4> QED BY <4>1, <1>1
    <3>2. used = IF current.first = index THEN 0 ELSE doc.foot[index - 1] - doc.foot[current.first - 1]
      BY <2>2, <1>0, <1>2 DEF UnderWay, HeightOf, IsBlank
    <3>3. HeightOf(current)' = doc.foot[index] - doc.foot[current.first - 1]
      BY <2>2, <1>0, <1>2 DEF HeightOf, IsBlank
    <3>4. Height(index) = doc.foot[index] - doc.foot[index - 1] /\ used' = used + Height(index)
      BY <2>1 DEF Height
    <3> QED BY <3>1, <3>2, <3>3, <3>4
  <2>4. current'.first < current'.last => used' <= roomOn(Len(pages) + 1)
    BY <1>4, <2>1, <2>2, <2>3, <1>0, <1>1, <1>2 DEF Breaks, UnderWay, IsBlank, roomOn, Height
  <2>5. UnderWay'
    <3>1. current'.first = NextRow'
      BY <2>1, <2>2, <1>0 DEF UnderWay, NextRow
    <3>2. /\ index' \in 1 .. doc.n + 1 /\ current'.last = index' - 1
          /\ current'.first <= index' /\ ~IsBlank(current')
      BY <2>2, <1>0, <1>1, <1>2 DEF IsBlank
    <3>3. current'.first < current'.last => used' <= roomOn(Len(pages') + 1)
      BY <2>1, <2>4
    <3>4. \A p \in DOMAIN pages' : ~IsBlank(pages'[p])
      BY <2>1, <1>0 DEF UnderWay, IsBlank
    <3> QED BY <3>1, <3>2, <3>3, <3>4, <2>2, <2>3, <1>0 DEF UnderWay, IsBlank, roomOn
  <2>6. \A p \in DOMAIN pages' : FullPage(p)'
    BY <2>1, <1>0 DEF FullPage, HeightOf, IsBlank, roomOn
  <2> QED BY <2>1, <2>5, <2>6, <1>0 DEF PrintInv
<1> QED BY <1>3, <1>4

\* The last page ends with the last row; only without rows is it blank.
LEMMA LastPageKeeps ==
  ASSUME PrintInv, LastPage
  PROVE  PrintInv'
<1>0. /\ doc \in Documents /\ pages \in Seq(Run) /\ UnderWay /\ index > doc.n
      /\ UNCHANGED <<doc, index, current, used>> /\ dealt' = "totals"
      /\ \A p \in DOMAIN pages : FullPage(p)
  BY DEF PrintInv, LastPage
<1>1. doc.n \in Nat /\ index = doc.n + 1 /\ current \in Run /\ current.last = doc.n
  <2>1. doc.n \in Nat
    BY <1>0, TheDocument
  <2> QED BY <2>1, <1>0 DEF UnderWay
<1>2. CASE ~IsBlank(current) \/ pages = <<>>
  <2>1. pages' = Append(pages, current)
    BY <1>2 DEF LastPage
  <2>2. /\ pages' \in Seq(Run)
        /\ Len(pages') = Len(pages) + 1 /\ Len(pages) \in Nat
        /\ DOMAIN pages' = 1 .. Len(pages) + 1 /\ DOMAIN pages = 1 .. Len(pages)
        /\ pages'[Len(pages) + 1] = current
        /\ \A p \in 1 .. Len(pages) : pages'[p] = pages[p]
        /\ pages' # <<>>
        /\ pages = <<>> <=> Len(pages) = 0
    BY <2>1, <1>0, <1>1, AppendPage
  <2>3. \A p \in DOMAIN pages' : FullPage(p)'
    <3> SUFFICES ASSUME NEW p \in 1 .. Len(pages) + 1 PROVE FullPage(p)'
      BY <2>2
    <3>1. CASE p \in 1 .. Len(pages)
      <4>1. FullPage(p) /\ pages'[p] = pages[p] /\ (p # 1 => pages'[p - 1] = pages[p - 1])
        BY <3>1, <2>2, <1>0
      <4> QED BY <4>1, <1>0 DEF FullPage, HeightOf, IsBlank, roomOn
    <3>2. CASE p = Len(pages) + 1
      <4>1. pages'[p] = current /\ (p # 1 => pages'[p - 1] = pages[Len(pages)])
        BY <3>2, <2>2
      <4>2. current.first = IF p = 1 THEN 1 ELSE pages'[p - 1].last + 1
        BY <4>1, <3>2, <2>2, <1>0 DEF UnderWay, NextRow
      <4>3. current.first < current.last => HeightOf(current) <= roomOn(p)
        BY <3>2, <1>0 DEF UnderWay
      <4> QED BY <4>1, <4>2, <4>3, <1>0, <1>1 DEF FullPage, HeightOf, IsBlank, roomOn
    <3> QED BY <3>1, <3>2
  <2>4. \A p \in DOMAIN pages' : IsBlank(pages'[p]) => p = 1 /\ Len(pages') = 1 /\ doc.n = 0
    <3>1. \A p \in 1 .. Len(pages) : ~IsBlank(pages'[p])
      BY <2>2, <1>0 DEF UnderWay
    <3>2. IsBlank(current) => Len(pages) = 0 /\ doc.n = 0
      BY <1>2, <2>2, <1>0, <1>1 DEF UnderWay, NextRow, IsBlank
    <3> QED BY <3>1, <3>2, <2>2
  <2> QED BY <2>2, <2>3, <2>4, <1>0, <1>1 DEF PrintInv, RowsOut, IsBlank
<1>3. CASE IsBlank(current) /\ pages # <<>>
  <2>1. pages' = pages
    BY <1>3 DEF LastPage
  <2>2. pages[Len(pages)].last = doc.n
    <3>1. current.first = pages[Len(pages)].last + 1 /\ pages[Len(pages)] \in Run
      BY <1>3, <1>0 DEF UnderWay, NextRow
    <3> QED BY <3>1, <1>3, <1>0, <1>1 DEF UnderWay, IsBlank, Run
  <2>3. \A p \in DOMAIN pages' : FullPage(p)'
    BY <2>1, <1>0 DEF FullPage, HeightOf, IsBlank, roomOn
  <2> QED BY <2>1, <2>2, <2>3, <1>0, <1>1, <1>3 DEF PrintInv, RowsOut, UnderWay, IsBlank
<1> QED BY <1>2, <1>3

\* The totals are under the last row with room to spare, or alone on the page
\* added behind it.
LEMMA AddTotalsKeeps ==
  ASSUME PrintInv, AddTotals
  PROVE  PrintInv'
<1>0. /\ doc \in Documents /\ pages \in Seq(Run) /\ RowsOut
      /\ UNCHANGED <<doc, index, current, used>> /\ dealt' = "done"
      /\ \A p \in DOMAIN pages : FullPage(p)
  BY DEF PrintInv, AddTotals
<1>1. /\ doc.n \in Nat /\ doc.totals \in Nat /\ doc.foot \in [0 .. doc.n -> Nat]
      /\ doc.n = 0 => doc.totals <= FirstRoom
      /\ FirstRoom \in Nat /\ NextRoom \in Nat
  BY <1>0, TheDocument
<1>2. Len(pages) \in Nat /\ Len(pages) # 0 /\ DOMAIN pages = 1 .. Len(pages)
  BY <1>0 DEF RowsOut
<1>3. CASE doc.totals # 0 /\ HeightOf(pages[Len(pages)]) + doc.totals > roomOn(Len(pages))
  <2>1. pages' = Append(pages, Blank(index)) /\ Blank(index) \in Run
        /\ Blank(index).first = doc.n + 1 /\ Blank(index).last = doc.n
    BY <1>3, <1>0, <1>1 DEF AddTotals, RowsOut, Blank, Run
  <2>2. /\ pages' \in Seq(Run)
        /\ Len(pages') = Len(pages) + 1
        /\ DOMAIN pages' = 1 .. Len(pages) + 1
        /\ pages'[Len(pages) + 1] = Blank(index)
        /\ \A p \in 1 .. Len(pages) : pages'[p] = pages[p]
    BY <2>1, <1>0, AppendPage
  <2>3. \A p \in 1 .. Len(pages) : ~IsBlank(pages[p])
    <3> SUFFICES ASSUME NEW p \in 1 .. Len(pages), IsBlank(pages[p]) PROVE FALSE
      OBVIOUS
    <3>1. Len(pages) = 1 /\ doc.n = 0 /\ p = 1
      BY <1>0, <1>2 DEF RowsOut
    <3>2. HeightOf(pages[Len(pages)]) = 0 /\ roomOn(Len(pages)) = FirstRoom
      BY <3>1 DEF HeightOf, roomOn
    <3> QED BY <3>1, <3>2, <1>1, <1>3
  <2>4. \A p \in DOMAIN pages' : FullPage(p)'
    <3> SUFFICES ASSUME NEW p \in 1 .. Len(pages) + 1 PROVE FullPage(p)'
      BY <2>2
    <3>1. CASE p \in 1 .. Len(pages)
      <4>1. FullPage(p) /\ pages'[p] = pages[p] /\ (p # 1 => pages'[p - 1] = pages[p - 1])
        BY <3>1, <2>2, <1>0, <1>2
      <4> QED BY <4>1, <1>0 DEF FullPage, HeightOf, IsBlank, roomOn
    <3>2. CASE p = Len(pages) + 1
      <4>1. pages'[p] = Blank(index) /\ p # 1 /\ pages'[p - 1].last = doc.n
        BY <3>2, <2>2, <1>0, <1>2 DEF RowsOut
      <4> QED BY <4>1, <2>1, <1>0, <1>1 DEF FullPage
    <3> QED BY <3>1, <3>2
  <2>5. PagesHold'
    <3>1. InOrder' /\ Fits'
      BY <2>1, <2>2, <2>4, <1>0, <1>2 DEF InOrder, Fits, FullPage
    <3>2. IsBlank(pages'[Len(pages')])
      BY <2>1, <2>2, <1>1, <1>2 DEF IsBlank
    <3>3. \A p \in DOMAIN pages' : IsBlank(pages'[p]) => p = Len(pages')
      BY <2>2, <2>3, <1>2
    <3> QED BY <3>1, <3>2, <3>3 DEF PagesHold, TotalsFit, NoBlankBetween, IsBlank
  <2> QED BY <2>2, <2>4, <2>5, <1>0 DEF PrintInv
<1>4. CASE ~(doc.totals # 0 /\ HeightOf(pages[Len(pages)]) + doc.totals > roomOn(Len(pages)))
  <2>1. pages' = pages
    BY <1>4 DEF AddTotals
  <2>2. \A p \in DOMAIN pages' : FullPage(p)'
    BY <2>1, <1>0 DEF FullPage, HeightOf, IsBlank, roomOn
  <2>3. TotalsFit'
    <3>1. HeightOf(pages[Len(pages)]) \in Int /\ roomOn(Len(pages)) \in Int
      <4>1. /\ pages[Len(pages)] \in Run /\ pages[Len(pages)].last = doc.n
            /\ pages[Len(pages)].first \in Nat \ {0}
        <5>1. pages[Len(pages)].first = IF Len(pages) = 1 THEN 1 ELSE pages[Len(pages) - 1].last + 1
          BY <1>0, <1>2 DEF FullPage
        <5>2. Len(pages) # 1 => pages[Len(pages) - 1] \in Run
          BY <1>0, <1>2
        <5>3. pages[Len(pages)] \in Run /\ pages[Len(pages)].last = doc.n
          BY <1>0, <1>2 DEF RowsOut
        <5> QED BY <5>1, <5>2, <5>3 DEF Run
      <4>2. roomOn(Len(pages)) \in Int
        BY <1>1 DEF roomOn
      <4>3. CASE IsBlank(pages[Len(pages)])
        BY <4>2, <4>3 DEF HeightOf
      <4>4. CASE ~IsBlank(pages[Len(pages)])
        <5>1. pages[Len(pages)].first - 1 \in 0 .. doc.n /\ doc.n \in 0 .. doc.n
          BY <4>1, <4>4, <1>1 DEF IsBlank
        <5>2. doc.foot[pages[Len(pages)].last] \in Nat /\ doc.foot[pages[Len(pages)].first - 1] \in Nat
          BY <5>1, <4>1, <1>1
        <5> QED BY <5>2, <4>2, <4>4 DEF HeightOf
      <4> QED BY <4>3, <4>4
    <3> QED BY <3>1, <2>1, <1>0, <1>1, <1>4 DEF TotalsFit, HeightOf, IsBlank, roomOn
  <2>4. InOrder' /\ Fits' /\ NoBlankBetween'
    BY <2>1, <2>2, <1>0, <1>2 DEF InOrder, Fits, NoBlankBetween, FullPage, RowsOut
  <2> QED BY <2>1, <2>2, <2>3, <2>4, <1>0 DEF PrintInv, PagesHold
<1> QED BY <1>3, <1>4

LEMMA PrintInvHolds == PrintSpec => []PrintInv
<1>1. PrintInv /\ [PrintNext]_printVars => PrintInv'
  <2> SUFFICES ASSUME PrintInv, [PrintNext]_printVars PROVE PrintInv'
    OBVIOUS
  <2>1. CASE PrintNext
    BY <2>1, DealRowKeeps, LastPageKeeps, AddTotalsKeeps DEF PrintNext
  <2>2. CASE UNCHANGED printVars
    BY <2>2 DEF printVars, PrintInv, FullPage, UnderWay, RowsOut, PagesHold, InOrder, Fits,
       TotalsFit, NoBlankBetween, NextRow, HeightOf, IsBlank, roomOn
  <2> QED BY <2>1, <2>2
<1> QED BY <1>1, PrintInitInv, PTL DEF PrintSpec

\* While the rows are being dealt and when they are all out, the pages hold.
LEMMA PrintInvImpliesPagesHold == PrintInv => PagesHold
<1> SUFFICES ASSUME PrintInv PROVE PagesHold
  OBVIOUS
<1>1. CASE dealt = "rows"
  BY <1>1 DEF PrintInv, UnderWay, PagesHold, InOrder, Fits, TotalsFit, NoBlankBetween, FullPage
<1>2. CASE dealt = "totals"
  BY <1>2 DEF PrintInv, RowsOut, PagesHold, InOrder, Fits, TotalsFit, NoBlankBetween, FullPage
<1>3. CASE dealt = "done"
  BY <1>3 DEF PrintInv
<1> QED BY <1>1, <1>2, <1>3 DEF PrintInv

\* Every row of a printed document comes out once and in order, no page is
\* fuller than it can be, and the totals are never cut (lib/print.ts:137),
\* for every document.
THEOREM PagesHoldAlways == PrintSpec => []PagesHold
BY PrintInvHolds, PrintInvImpliesPagesHold, PTL
================================================================================
