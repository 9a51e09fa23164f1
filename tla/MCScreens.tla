------------------------------- MODULE MCScreens -------------------------------
(* Small instances of Browsing, of PaymentEntry and of PrintPages, one of them
   in each behaviour.  Everyone holds one role, but for a receptionist and a
   professor who are made administrators; documents have up to four rows, some
   too high for the first page or for any. *)
EXTENDS Browsing, PaymentEntry, PrintPages, FiniteSetsExt

VARIABLE which  \* "browsing", "paying" or "printing"

MCAccounts ==
  {{r} : r \in Roles} \cup {{"RECEPTION", "ADMIN"}, {"PROFESSOR", "ADMIN"}}

Feet(n, heights) == [i \in 0 .. n |-> MapThenSumSet(LAMBDA j : heights[j], 1 .. i)]
NoRows == [n |-> 0, foot |-> Feet(0, <<>>), totals |-> 0]
MCDocuments ==
  UNION {{[n |-> n, foot |-> Feet(n, h), totals |-> t] :
            h \in [1 .. n -> {1, 3, 5, 7}], t \in {0, 2}} : n \in 0 .. 4}

NotBrowsing ==
  /\ me = Idle /\ session = "none" /\ row = NoRow /\ page = Idle /\ call = Idle /\ answer = "none"
NotPrinting ==
  /\ doc = NoRows
  /\ index = 1 /\ current = Blank(1) /\ used = 0 /\ pages = <<>> /\ dealt = "rows"

Init ==
  \/ which = "browsing" /\ BrowseInit /\ EntryInit /\ NotPrinting
  \/ which = "paying" /\ EntryInit /\ NotBrowsing /\ NotPrinting
  \/ which = "printing" /\ PrintInit /\ EntryInit /\ NotBrowsing
Next ==
  /\ UNCHANGED which
  /\ \/ which = "browsing" /\ BrowseNext /\ UNCHANGED <<entryVars, printVars>>
     \/ which = "paying" /\ EntryNext /\ UNCHANGED <<browseVars, printVars>>
     \/ which = "printing" /\ PrintNext /\ UNCHANGED <<browseVars, entryVars>>
Spec == Init /\ [][Next]_<<browseVars, entryVars, printVars, which>>
================================================================================
