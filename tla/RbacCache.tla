------------------------------- MODULE RbacCache -------------------------------
(***************************************************************************)
(* backend/apps/rbac: who holds which permission, and the cache every      *)
(* request reads it through.                                               *)
(*                                                                         *)
(* The tables (held, matrix) live in PostgreSQL, the version stamp and the *)
(* permission sets in Redis; nothing makes a step on both atomic.  A       *)
(* reader asks for the version, looks its set up, resolves it from the     *)
(* tables on a miss and stores it: four round trips.  A writer changes a   *)
(* table and then bumps the version, which makes every set of the old      *)
(* version unreachable.                                                    *)
(*                                                                         *)
(* An anonymous or inactive user is answered with the empty set before any *)
(* of this, so it takes no step here.  The audit row assign_role and       *)
(* revoke_role write last touches no variable of this module: Record is    *)
(* only the moment at which it is written.                                 *)
(***************************************************************************)
EXTENDS Integers

CONSTANTS Users, Roles, Codenames, Workers,
          MaxVersion,   \* bound: values the version counter reaches
          Nobody,       \* no user, no role, no codename
          Miss          \* cache.get returned None

Versions == 1 .. MaxVersion

ASSUME RbacAssumption ==
  /\ MaxVersion \in Nat \ {0}
  /\ Nobody \notin Users \cup Roles \cup Codenames
  /\ \A S \in SUBSET Codenames : Miss # S

VARIABLES
  held,       \* user -> the roles of its UserRole rows with revoked_at NULL
  matrix,     \* role -> the codenames of its RolePermission rows
  version,    \* "rbac:version"; 0 when the key is absent
  sets,       \* "rbac:perms:<user>:v<version>", or Miss
  requests,   \* worker -> the call it is in the middle of
  faults      \* history: invalidations that were skipped or came too early

vars == <<held, matrix, version, sets, requests, faults>>

ReaderSteps == {"unseeded", "versioned", "missed", "resolved"}
\* "written" by a service, "saved" through the model: committed, bump still due.
Unbumped == {"written", "saved"}
Steps == {"idle", "recording", "deleting", "deleted"} \cup ReaderSteps \cup Unbumped
Faults == {"key absent", "bulk write", "early bump", "bump lost"}

Request == [step : Steps, user : Users \cup {Nobody}, version : Versions \cup {0},
            permissions : SUBSET Codenames, bumps : 0 .. 2, reseeding : BOOLEAN,
            role : Roles \cup {Nobody}, codename : Codenames \cup {Nobody}]

Reader(step, u, v, perms) ==
  [step |-> step, user |-> u, version |-> v, permissions |-> perms, bumps |-> 0,
   reseeding |-> FALSE, role |-> Nobody, codename |-> Nobody]
Writer(step, bumps, r, c) ==
  [step |-> step, user |-> Nobody, version |-> 0, permissions |-> {}, bumps |-> bumps,
   reseeding |-> FALSE, role |-> r, codename |-> c]
Idle == Writer("idle", 0, Nobody, Nobody)

Goto(w, r) == requests' = [requests EXCEPT ![w] = r]
tables == <<held, matrix>>

----------------------------------------------------------------------------
(* get_permissions.                                                        *)

\* fault: the roles themselves are cached, not what they grant.
resolve_roles(u) == held[u]
resolve_permissions(u) == UNION {matrix[r] : r \in held[u]}

\* _current_version: a key that is there is used as it is.
ReadVersion(w, u) ==
  /\ requests[w] = Idle
  /\ Goto(w, IF version = 0 THEN Reader("unseeded", u, 0, {})
                            ELSE Reader("versioned", u, version, {}))
  /\ UNCHANGED <<tables, version, sets, faults>>

\* _current_version: one that was not is set to 1, whatever it is by now.
SeedVersion(w) ==
  /\ requests[w].step = "unseeded"
  /\ version' = 1
  /\ Goto(w, Reader("versioned", requests[w].user, 1, {}))
  /\ UNCHANGED <<tables, sets, faults>>

Lookup(w) ==
  LET r == requests[w] IN
  /\ r.step = "versioned"
  /\ Goto(w, IF sets[r.user][r.version] = Miss
               THEN Reader("missed", r.user, r.version, {}) ELSE Idle)
  /\ UNCHANGED <<tables, version, sets, faults>>

Resolve(w) ==
  LET r == requests[w] IN
  /\ r.step = "missed"
  /\ Goto(w, Reader("resolved", r.user, r.version, resolve_permissions(r.user)))
  /\ UNCHANGED <<tables, version, sets, faults>>

\* fault: the set is filed under the version of the moment it is stored.
KeyAtStore(r) == version
\* _cache_key: the version read before the tables were.
CacheKey(r) == r.version
StoreSet(w) ==
  LET r == requests[w] IN
  /\ r.step = "resolved"
  /\ sets' = [sets EXCEPT ![r.user][CacheKey(r)] = r.permissions]
  /\ Goto(w, Idle)
  /\ UNCHANGED <<tables, version, faults>>

----------------------------------------------------------------------------
(* The writers: each leaves a number of bumps to do behind its write.      *)

\* assign_role: the row is inserted unless an active one exists (the unique
\* constraint refuses the second of two at once); post_save bumps, and then
\* assign_role does.
assign_role(w, u, r) ==
  /\ requests[w] = Idle
  /\ r \notin held[u]
  /\ held' = [held EXCEPT ![u] = @ \cup {r}]
  /\ Goto(w, Writer("written", 2, Nobody, Nobody))
  /\ UNCHANGED <<matrix, version, sets, faults>>

\* fault: the queryset update sends no signal, and nothing else bumps.
NoBumpAfterRevoke == 0
BumpsAfterRevoke == 1
revoke_role(w, u, r) ==
  /\ requests[w] = Idle
  /\ r \in held[u]
  /\ held' = [held EXCEPT ![u] = @ \ {r}]
  /\ Goto(w, IF BumpsAfterRevoke = 0 THEN Idle
             ELSE Writer("written", BumpsAfterRevoke, Nobody, Nobody))
  /\ UNCHANGED <<matrix, version, sets, faults>>

\* RolePermission.save(): post_save is sent after the insert has committed.
GrantPermission(w, r, c) ==
  /\ requests[w] = Idle
  /\ c \notin matrix[r]
  /\ matrix' = [matrix EXCEPT ![r] = @ \cup {c}]
  /\ Goto(w, Writer("saved", 1, Nobody, Nobody))
  /\ UNCHANGED <<held, version, sets, faults>>

\* RolePermission.delete(): the collector sends post_delete inside its own
\* transaction, so the bump precedes the commit.
RemovePermission(w, r, c) ==
  /\ requests[w] = Idle
  /\ c \in matrix[r]
  /\ Goto(w, Writer("deleting", 1, r, c))
  /\ UNCHANGED <<tables, version, sets, faults>>

CommitRemoval(w) ==
  LET r == requests[w] IN
  /\ r.step = "deleted"
  /\ matrix' = [matrix EXCEPT ![r.role] = @ \ {r.codename}]
  /\ faults' = faults \cup {"early bump"}
  /\ Goto(w, Idle)
  /\ UNCHANGED <<held, version, sets>>

\* bulk_create in the seed migrations: no save, no signal, no bump.
BulkGrant(r, c) ==
  /\ c \notin matrix[r]
  /\ matrix' = [matrix EXCEPT ![r] = @ \cup {c}]
  /\ faults' = faults \cup {"bulk write"}
  /\ UNCHANGED <<held, version, sets, requests>>

\* What a call goes on with once a bump is done.
AfterBump(r) ==
  IF r.bumps > 1 THEN Writer(r.step, r.bumps - 1, r.role, r.codename)
  ELSE IF r.step = "deleting" THEN Writer("deleted", 0, r.role, r.codename)
  ELSE IF r.step = "written" THEN Writer("recording", 0, Nobody, Nobody)
  ELSE Idle

\* fault: the stamp is kept in two values.
WrapsAround == 1 + (version % 2)
NextVersion == version + 1

\* bump_version: cache.incr, or ValueError when the key is absent ...
BumpVersion(w) ==
  LET r == requests[w] IN
  /\ r.bumps > 0 /\ ~r.reseeding
  /\ IF version = 0
       THEN /\ Goto(w, [r EXCEPT !.reseeding = TRUE])
            /\ UNCHANGED version
       ELSE /\ version < MaxVersion
            /\ version' = NextVersion
            /\ Goto(w, AfterBump(r))
  /\ UNCHANGED <<tables, sets, faults>>

\* ... and then the key is set to 1.
ReseedVersion(w) ==
  LET r == requests[w] IN
  /\ r.reseeding
  /\ version' = 1
  /\ Goto(w, AfterBump(r))
  /\ UNCHANGED <<tables, sets, faults>>

Record(w) ==
  /\ requests[w].step = "recording"
  /\ Goto(w, Idle)
  /\ UNCHANGED <<tables, version, sets, faults>>

----------------------------------------------------------------------------
(* Around the calls.                                                       *)

\* The worker is killed or Redis does not answer.  A deletion in progress is
\* rolled back; a bump that was due is not done.
Crash(w) ==
  /\ requests[w] # Idle
  /\ faults' = IF requests[w].step \in Unbumped THEN faults \cup {"bump lost"} ELSE faults
  /\ Goto(w, Idle)
  /\ UNCHANGED <<tables, version, sets>>

\* A set falls out after _CACHE_TTL; the version key has no timeout.
\* fault: only sets under a version already left behind have a timeout.
HasTimeoutOnceOld(v) == v # version
HasTimeout(v) == TRUE
Expire(u, v) ==
  /\ HasTimeout(v)
  /\ sets[u][v] # Miss
  /\ sets' = [sets EXCEPT ![u][v] = Miss]
  /\ UNCHANGED <<tables, version, requests, faults>>

\* cache.clear(): "the RBAC permission sets are meant to be discardable".
ClearCache ==
  /\ version' = 0
  /\ sets' = [u \in Users |-> [v \in Versions |-> Miss]]
  /\ faults' = faults \cup {"key absent"}
  /\ UNCHANGED <<tables, requests>>

Init ==
  /\ held \in [Users -> SUBSET Roles]
  /\ matrix \in [Roles -> SUBSET Codenames]
  /\ version \in {0, 1}
  /\ sets = [u \in Users |-> [v \in Versions |-> Miss]]
  /\ requests = [w \in Workers |-> Idle]
  /\ faults = IF version = 0 THEN {"key absent"} ELSE {}

Next ==
  \/ \E w \in Workers :
        \/ \E u \in Users : ReadVersion(w, u)
        \/ SeedVersion(w) \/ Lookup(w) \/ Resolve(w) \/ StoreSet(w)
        \/ \E u \in Users, r \in Roles : assign_role(w, u, r) \/ revoke_role(w, u, r)
        \/ \E r \in Roles, c \in Codenames : GrantPermission(w, r, c) \/ RemovePermission(w, r, c)
        \/ CommitRemoval(w) \/ BumpVersion(w) \/ ReseedVersion(w) \/ Record(w)
        \/ Crash(w)
  \/ \E r \in Roles, c \in Codenames : BulkGrant(r, c)
  \/ \E u \in Users, v \in Versions : Expire(u, v)
  \/ ClearCache

Spec == Init /\ [][Next]_vars

----------------------------------------------------------------------------
(* Properties.                                                             *)

\* Every variable stays in its range.
TypeOK ==
  /\ held \in [Users -> SUBSET Roles]
  /\ matrix \in [Roles -> SUBSET Codenames]
  /\ version \in Versions \cup {0}
  /\ sets \in [Users -> [Versions -> (SUBSET Codenames) \cup {Miss}]]
  /\ requests \in [Workers -> Request]
  /\ faults \subseteq Faults

\* The set the next get_permissions of u is answered with is not the one the
\* tables give.
Stale(u) ==
  /\ version # 0
  /\ sets[u][version] \notin {Miss, resolve_permissions(u)}

\* Somebody has committed a change and has not bumped yet, so has not returned.
ChangePending == \E w \in Workers : requests[w].step \in Unbumped

\* "A missed invalidation is a security bug that grants access after it was
\* revoked": once the calls that changed a role or a grant have returned, no
\* cached set disagrees with the tables, whichever readers were in the middle
\* of filling the cache at the time.  It holds as long as the version key is
\* there and every change is followed by its bump.
CacheIsCoherent ==
  faults = {} /\ ~ChangePending => \A u \in Users : ~Stale(u)

\* The same of the readers in flight: what a reader is about to store under
\* the current version is what the tables say, however long ago it read them.
LateStoresAreCurrent ==
  faults = {} /\ ~ChangePending =>
    \A w \in Workers :
       requests[w].step = "resolved" /\ requests[w].version = version =>
          requests[w].permissions = resolve_permissions(requests[w].user)

\* A version once left is never current again, so what was stored under it
\* stays unreachable.
VersionNeverGoesBack ==
  [][faults' = {} => version' >= version]_vars

\* "Stale entries fall out on TTL": whatever went wrong with an invalidation, a
\* stale set is not what the next request is answered with for ever.
StaleSetsFallOut == \A u \in Users : Stale(u) ~> ~Stale(u)

\* bump_version: "Key absent or evicted: seed it.  Any set cached under the old
\* version is already unreachable, so starting from 1 is safe."
StartingFromOneIsSafe ==
  faults \subseteq {"key absent"} /\ ~ChangePending => \A u \in Users : ~Stale(u)

\* bump_version: "the only version that cannot silently leave a revoked
\* permission in place"; apps/rbac/tests: removing a permission from a role
\* affects everyone holding it.
RemovalTakesEffect ==
  faults \subseteq {"early bump"} /\ ~ChangePending => \A u \in Users : ~Stale(u)
================================================================================
