---------------------------- MODULE PermissionAnswers ---------------------------
(***************************************************************************)
(* What a request may be answered with by get_permissions, whatever is in  *)
(* the cache of RbacCache: history variables beside its own, for the one   *)
(* property that is about answers and not about the cache.                 *)
(*                                                                         *)
(* A change has returned when its last bump is done.  Once an invalidation *)
(* has gone wrong (faults) nothing is promised and nothing is watched.     *)
(***************************************************************************)
EXTENDS RbacCache

VARIABLES
  standing,  \* user -> what the tables have said since the last change that has returned
  since      \* worker -> user -> what they have said during its call

answerVars == <<vars, standing, since>>

Asking(r) == r.step \in ReaderSteps
Owing(r) == r.step \in Unbumped

Begins(w) == ~Asking(requests[w]) /\ Asking(requests'[w])
Commits(w) == ~Owing(requests[w]) /\ Owing(requests'[w])
Returns(w) == Owing(requests[w]) /\ ~Owing(requests'[w])
\* A change nobody owes a bump for has returned as it was committed.
ReturnsAtOnce == tables' # tables /\ \A w \in Workers : ~Commits(w)

\* Whoever returns is done with whatever the tables said before.
StandingOf(u) ==
  {p \in standing[u] : ~ReturnsAtOnce /\ \A w \in Workers : Returns(w) => p \in since[w][u]}
    \cup {resolve_permissions(u)'}

\* A reader may be answered with what stood when it began, and with all that
\* came after; a change counts from its commit.
SinceOf(w, u) ==
  CASE Begins(w) -> StandingOf(u)
    [] Commits(w) -> {resolve_permissions(u)'}
    [] ~Begins(w) /\ ~Commits(w) /\ (Asking(requests'[w]) \/ Owing(requests'[w])) ->
         since[w][u] \cup {resolve_permissions(u)'}
    [] OTHER -> {}

Unwatched ==
  standing' = [u \in Users |-> {}] /\ since' = [w \in Workers |-> [u \in Users |-> {}]]
Watched ==
  /\ standing' = [u \in Users |-> StandingOf(u)]
  /\ since' = [w \in Workers |-> [u \in Users |-> SinceOf(w, u)]]

AnswersInit ==
  /\ Init
  /\ standing = [u \in Users |-> IF faults = {} THEN {resolve_permissions(u)} ELSE {}]
  /\ since = [w \in Workers |-> [u \in Users |-> {}]]

AnswersNext ==
  /\ Next
  /\ faults' # {} => Unwatched
  /\ faults' = {} => Watched

AnswersSpec == AnswersInit /\ [][AnswersNext]_answerVars

\* Redis honours the timeout a set was stored with.
FairAnswersSpec == AnswersSpec /\ \A u \in Users, v \in Versions : WF_vars(Expire(u, v))

----------------------------------------------------------------------------

\* "A missed invalidation is a security bug that grants access after it was
\* revoked", seen by who asks: whatever the cache holds and whoever is filling
\* it, get_permissions answers with what the tables said at some moment of the
\* call, or after the last change that had returned when it began.  A hit is
\* answered with the set found, a miss with what was resolved.
AnswersAreCurrent ==
  faults = {} =>
    \A w \in Workers :
      LET r == requests[w] IN
      /\ r.step = "versioned" /\ sets[r.user][r.version] # Miss =>
           sets[r.user][r.version] \in since[w][r.user]
      /\ r.step = "resolved" => r.permissions \in since[w][r.user]
================================================================================
