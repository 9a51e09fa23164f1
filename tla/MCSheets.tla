------------------------------- MODULE MCSheets --------------------------------
(* Small instances of MarkSheets and of Registers, one or the other in each
   behaviour: two teachers who disagree about sam, one of whom also marks zoe;
   zoe may leave the class meanwhile.  noted differs from good in what no audit
   row says, a comment or zero minutes, and a register does not display it. *)
EXTENDS MarkSheets, Registers, TLC

CONSTANTS nadia, omar, sam, zoe, good, noted, poor, w1, w2

VARIABLE which  \* "marks" or "register"

MCTyping == {<<nadia, sam, noted>>, <<nadia, sam, Null>>, <<omar, sam, poor>>, <<omar, zoe, good>>}
MCAudited == [m \in Marks |-> IF m = noted THEN good ELSE m]
MCLeaving == {<<zoe, "CANCELLED">>}
WorkersAreAlike == Permutations({w1, w2})

others == <<register, records>>
NoRegister ==
  /\ register = Null
  /\ corrections = [s \in Students |-> <<>>]
  /\ taken = <<>>
  /\ untaken = <<>>
NoAssessment ==
  /\ assessment = [exists |-> FALSE, is_published |-> FALSE]
  /\ trail = [s \in Students |-> <<>>]
  /\ told = {}
  /\ written = [s \in Students |-> {}]
  /\ before = [s \in Students |-> 0]

Init ==
  \/ which = "marks" /\ MarkInit /\ NoRegister
  \/ which = "register" /\ RegisterInit /\ NoAssessment
Next ==
  /\ UNCHANGED which
  /\ \/ which = "marks" /\ MarkNext /\ UNCHANGED others
     \/ which = "register" /\ RegisterNext /\ UNCHANGED above
Spec == Init /\ [][Next]_<<markVars, others, which>>

\* Every variable of both machines keeps its type.
SheetsTypeOK == MarksTypeOK /\ RegisterTypeOK
================================================================================
