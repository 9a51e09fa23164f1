---------------------------- MODULE RbacCacheProofs ----------------------------
(***************************************************************************)
(* Theorems about RbacCache and PermissionAnswers: for any number of       *)
(* users, roles, permissions and concurrent calls, an invalidation that is *)
(* not skipped leaves no stale set behind, and nobody who asks is answered *)
(* with what a change that had returned has replaced.                      *)
(*                                                                         *)
(* The inductive invariant adds to CacheIsCoherent what it rests on: no    *)
(* set and no reader is ahead of the version (so a bump leaves every one   *)
(* of them behind), and only a lost key brings a version back.             *)
(* For answers it says as much of what is found or held while a change is *)
(* pending.                                                                *)
(***************************************************************************)
EXTENDS PermissionAnswers, TLAPS

\* What the step of a call says about the rest of it.
Shape ==
  \A w \in Workers :
     LET r == requests[w] IN
     /\ r.step \in ReaderSteps => r.user \in Users
     /\ r.step \in ReaderSteps \ {"unseeded"} => r.version \in Versions
     /\ r.step \in {"deleting", "deleted"} => r.role \in Roles
     /\ r.bumps > 0 <=> r.step \in Unbumped \cup {"deleting"}
     /\ r.reseeding => r.bumps > 0
     /\ r.step = "unseeded" \/ r.reseeding => faults # {}

NothingAhead ==
  /\ version # 0
  /\ \A u \in Users, v \in Versions : sets[u][v] # Miss => v <= version
  /\ \A w \in Workers : requests[w].version <= version

Fresh ==
  /\ \A u \in Users : ~Stale(u)
  /\ \A w \in Workers :
        requests[w].step = "resolved" /\ requests[w].version = version =>
           requests[w].permissions = resolve_permissions(requests[w].user)

Core ==
  faults = {} => /\ NothingAhead
                 /\ ~ChangePending => Fresh

IInv == TypeOK /\ Shape /\ Core

USE DEF Versions

----------------------------------------------------------------------------
(* The records.                                                            *)

LEMMA ReaderType ==
  ASSUME NEW step \in ReaderSteps, NEW u \in Users, NEW v \in Versions \cup {0},
         NEW perms \in SUBSET Codenames
  PROVE  Reader(step, u, v, perms) \in Request
BY DEF Reader, Request, Steps, ReaderSteps

LEMMA WriterType ==
  ASSUME NEW step \in Steps, NEW bumps \in 0 .. 2,
         NEW r \in Roles \cup {Nobody}, NEW c \in Codenames \cup {Nobody}
  PROVE  Writer(step, bumps, r, c) \in Request
BY DEF Writer, Request

LEMMA IdleType == Idle \in Request
BY WriterType DEF Idle, Steps

\* Once its bumps are done a call is a writer's, and bumps remain exactly where
\* a bump is due.
LEMMA AfterBumpType ==
  ASSUME NEW r \in Request, r.bumps > 0, r.step \in Unbumped \cup {"deleting"}
  PROVE  /\ AfterBump(r) \in Request
         /\ AfterBump(r).step \notin ReaderSteps
         /\ AfterBump(r).version = 0
         /\ ~AfterBump(r).reseeding
         /\ AfterBump(r).bumps > 0 <=> AfterBump(r).step \in Unbumped \cup {"deleting"}
         /\ AfterBump(r).step \in {"deleting", "deleted"} =>
               r.step = "deleting" /\ AfterBump(r).role = r.role
<1>1. /\ r.bumps \in 0 .. 2 /\ r.role \in Roles \cup {Nobody}
      /\ r.codename \in Codenames \cup {Nobody} /\ r.step \in Steps
  BY DEF Request
<1>2. CASE r.bumps > 1
  <2>1. AfterBump(r) = Writer(r.step, r.bumps - 1, r.role, r.codename)
    BY <1>2 DEF AfterBump
  <2>2. Writer(r.step, r.bumps - 1, r.role, r.codename) \in Request
    BY <1>1, <1>2, WriterType
  <2> QED  BY <1>1, <1>2, <2>1, <2>2 DEF Writer, ReaderSteps, Unbumped
<1>3. CASE ~(r.bumps > 1) /\ r.step = "deleting"
  <2>1. AfterBump(r) = Writer("deleted", 0, r.role, r.codename)
    BY <1>3 DEF AfterBump
  <2>2. Writer("deleted", 0, r.role, r.codename) \in Request
    BY <1>1, WriterType DEF Steps
  <2> QED  BY <1>1, <1>3, <2>1, <2>2 DEF Writer, ReaderSteps, Unbumped
<1>4. CASE ~(r.bumps > 1) /\ r.step = "written"
  <2>1. AfterBump(r) = Writer("recording", 0, Nobody, Nobody)
    BY <1>4 DEF AfterBump
  <2>2. Writer("recording", 0, Nobody, Nobody) \in Request
    BY WriterType DEF Steps
  <2> QED  BY <1>4, <2>1, <2>2 DEF Writer, ReaderSteps, Unbumped
<1>5. CASE ~(r.bumps > 1) /\ r.step \notin {"deleting", "written"}
  <2>1. AfterBump(r) = Idle
    BY <1>5 DEF AfterBump
  <2> QED  BY <2>1, IdleType DEF Idle, Writer, ReaderSteps, Unbumped
<1> QED  BY <1>2, <1>3, <1>4, <1>5

\* resolve_permissions only ever returns codenames.
LEMMA ResolveType ==
  ASSUME TypeOK, NEW u \in Users
  PROVE  resolve_permissions(u) \in SUBSET Codenames
BY DEF TypeOK, resolve_permissions

\* A step that changes one call and no table, version or set of the cache keeps
\* the core, when the call neither starts nor ends a pending change and carries
\* nothing stale away from the tables.
LEMMA QuietStep ==
  ASSUME TypeOK, Core, NEW w \in Workers, NEW x \in Request,
         requests' = [requests EXCEPT ![w] = x],
         UNCHANGED <<held, matrix, version, sets>>, faults \subseteq faults',
         x.step \in Unbumped <=> requests[w].step \in Unbumped,
         faults = {} => x.version <= version,
         x.step = "resolved" => x.permissions = resolve_permissions(x.user)
  PROVE  Core'
<1>1. \A v \in Workers : requests'[v] = IF v = w THEN x ELSE requests[v]
  BY DEF TypeOK
<1>2. ChangePending' <=> ChangePending
  BY <1>1 DEF ChangePending
<1>3. SUFFICES ASSUME faults' = {}
               PROVE  NothingAhead' /\ (~ChangePending' => Fresh')
  BY DEF Core
<1>4. faults = {} /\ NothingAhead /\ (~ChangePending => Fresh)
  BY <1>3 DEF Core
<1>5. NothingAhead'
  BY <1>1, <1>4 DEF NothingAhead
<1>6. ASSUME ~ChangePending'  PROVE Fresh'
  <2>1. Fresh
    BY <1>2, <1>4, <1>6
  <2>2. \A u \in Users : ~Stale(u)'
    BY <2>1 DEF Fresh, Stale, resolve_permissions
  <2>3. ASSUME NEW v \in Workers,
               (requests[v].step = "resolved" /\ requests[v].version = version)'
        PROVE  (requests[v].permissions = resolve_permissions(requests[v].user))'
    <3>1. CASE v = w
      BY <1>1, <2>3, <3>1 DEF resolve_permissions
    <3>2. CASE v # w
      <4>1. requests'[v] = requests[v]
        BY <1>1, <3>2
      <4>2. requests[v].permissions = resolve_permissions(requests[v].user)
        BY <2>1, <2>3, <4>1 DEF Fresh
      <4> QED  BY <4>1, <4>2 DEF resolve_permissions
    <3> QED  BY <3>1, <3>2
  <2> QED  BY <2>2, <2>3 DEF Fresh
<1> QED  BY <1>5, <1>6

\* A bump leaves every set and every reader behind.
LEMMA BumpStep ==
  ASSUME TypeOK, Core, NEW w \in Workers, NEW x \in Request,
         requests' = [requests EXCEPT ![w] = x], x.version = 0, x.step \notin ReaderSteps,
         version' = version + 1, UNCHANGED <<held, matrix, sets, faults>>,
         version < MaxVersion, version # 0
  PROVE  Core'
<1>1. \A v \in Workers : requests'[v] = IF v = w THEN x ELSE requests[v]
  BY DEF TypeOK
<1>2. SUFFICES ASSUME faults = {}
               PROVE  NothingAhead' /\ Fresh'
  BY DEF Core
<1>3. NothingAhead /\ version \in Nat /\ version' \in 1 .. MaxVersion
  BY <1>2, RbacAssumption DEF Core, TypeOK
<1>4. \A v \in Workers : requests[v].version \in Nat
  BY RbacAssumption DEF TypeOK, Request
<1>5. NothingAhead'
  BY <1>1, <1>3, <1>4 DEF NothingAhead
<1>6. \A u \in Users : sets'[u][version'] = Miss
  BY <1>3 DEF NothingAhead
<1>7. \A v \in Workers : requests'[v].step = "resolved" => requests'[v].version # version'
  BY <1>1, <1>3, <1>4 DEF NothingAhead, ReaderSteps
<1> QED  BY <1>5, <1>6, <1>7 DEF Fresh, Stale

\* A committed change waits for its bump before anything is claimed.
LEMMA WriteStep ==
  ASSUME TypeOK, Core, NEW w \in Workers, NEW x \in Request,
         requests' = [requests EXCEPT ![w] = x], x.version = 0, x.step \in Unbumped,
         UNCHANGED <<version, sets, faults>>
  PROVE  Core'
<1>1. \A v \in Workers : requests'[v] = IF v = w THEN x ELSE requests[v]
  BY DEF TypeOK
<1>2. ChangePending'
  BY <1>1 DEF ChangePending
<1>3. version \in Nat
  BY RbacAssumption DEF TypeOK
<1>4. faults = {} => NothingAhead'
  BY <1>1, <1>3 DEF NothingAhead, Core
<1> QED  BY <1>2, <1>4 DEF Core

----------------------------------------------------------------------------
(* The invariant.                                                          *)

\* The call x, where it stands, agrees with the rest of its record.
ShapeOf(x) ==
  /\ x.step \in ReaderSteps => x.user \in Users
  /\ x.step \in ReaderSteps \ {"unseeded"} => x.version \in Versions
  /\ x.step \in {"deleting", "deleted"} => x.role \in Roles
  /\ x.bumps > 0 <=> x.step \in Unbumped \cup {"deleting"}
  /\ x.reseeding => x.bumps > 0

\* A call that moves on keeps its own shape, and everybody else theirs.
LEMMA ShapeStep ==
  ASSUME TypeOK, Shape, NEW w \in Workers, NEW x \in Request, ShapeOf(x),
         requests' = [requests EXCEPT ![w] = x], faults \subseteq faults',
         x.step = "unseeded" \/ x.reseeding => faults' # {}
  PROVE  Shape'
<1>1. \A v \in Workers : requests'[v] = IF v = w THEN x ELSE requests[v]
  BY DEF TypeOK
<1>2. SUFFICES ASSUME NEW v \in Workers
               PROVE  /\ ShapeOf(requests'[v])
                      /\ requests'[v].step = "unseeded" \/ requests'[v].reseeding => faults' # {}
  BY DEF Shape, ShapeOf
<1>3. CASE v = w
  BY <1>1, <1>3
<1>4. CASE v # w
  BY <1>1, <1>4 DEF Shape, ShapeOf
<1> QED  BY <1>3, <1>4

\* Types survive a step of one call that leaves the sets alone.
LEMMA TypeStep ==
  ASSUME TypeOK, NEW w \in Workers, NEW x \in Request,
         requests' = [requests EXCEPT ![w] = x], UNCHANGED sets,
         held' \in [Users -> SUBSET Roles], matrix' \in [Roles -> SUBSET Codenames],
         version' \in Versions \cup {0}, faults' \subseteq Faults
  PROVE  TypeOK'
BY DEF TypeOK

LEMMA QuietIInv ==
  ASSUME IInv, NEW w \in Workers, NEW x \in Request, ShapeOf(x),
         requests' = [requests EXCEPT ![w] = x],
         UNCHANGED <<held, matrix, version, sets>>,
         faults \subseteq faults', faults' \subseteq Faults,
         x.step \in Unbumped <=> requests[w].step \in Unbumped,
         faults = {} => x.version <= version,
         x.step = "unseeded" \/ x.reseeding => faults' # {},
         x.step = "resolved" => x.permissions = resolve_permissions(x.user)
  PROVE  IInv'
<1>1. TypeOK'
  BY TypeStep DEF IInv, TypeOK
<1>2. Shape'
  BY ShapeStep DEF IInv
<1>3. Core'
  BY QuietStep DEF IInv
<1> QED  BY <1>1, <1>2, <1>3 DEF IInv

LEMMA IdleShape == /\ ShapeOf(Idle) /\ Idle.step = "idle" /\ Idle.version = 0 /\ ~Idle.reseeding
BY DEF ShapeOf, Idle, Writer, ReaderSteps, Unbumped

LEMMA InitIInv ==
  ASSUME Init  PROVE IInv
<1>1. \A w \in Workers : requests[w] = Idle
  BY DEF Init
<1>2. TypeOK
  <2>1. version \in Versions \cup {0}
    <3>1. version = 0 \/ version = 1
      BY DEF Init
    <3> QED  BY <3>1, RbacAssumption
  <2>4. faults \subseteq Faults
    BY DEF Init, Faults
  <2>2. sets \in [Users -> [Versions -> (SUBSET Codenames) \cup {Miss}]]
    BY DEF Init
  <2>3. requests \in [Workers -> Request]
    BY IdleType DEF Init
  <2> QED  BY <2>1, <2>2, <2>3, <2>4 DEF Init, TypeOK
<1>3. Shape
  BY <1>1, IdleShape DEF Shape, ShapeOf
<1>4. Core
  <2>1. \A u \in Users, v \in Versions : sets[u][v] = Miss
    BY DEF Init
  <2>2. \A w \in Workers : requests[w].version = 0 /\ requests[w].step = "idle"
    BY <1>1, IdleShape
  <2>3. SUFFICES ASSUME faults = {}  PROVE NothingAhead /\ Fresh
    BY DEF Core
  <2>4. version = 1 /\ version \in Versions
    BY <1>2, <2>3 DEF Init, TypeOK
  <2>5. NothingAhead
    BY <2>1, <2>2, <2>4 DEF NothingAhead
  <2>6. \A u \in Users : ~Stale(u)
    BY <2>1, <2>4 DEF Stale
  <2> QED  BY <2>2, <2>5, <2>6 DEF Fresh
<1> QED  BY <1>2, <1>3, <1>4 DEF IInv

----------------------------------------------------------------------------
(* One lemma per kind of step.                                             *)

LEMMA ReadVersionStep ==
  ASSUME IInv, NEW w \in Workers, NEW u \in Users, ReadVersion(w, u)
  PROVE  IInv'
<1>1. PICK x : x = IF version = 0 THEN Reader("unseeded", u, 0, {})
                                  ELSE Reader("versioned", u, version, {})
  OBVIOUS
<1>2. /\ requests' = [requests EXCEPT ![w] = x] /\ requests[w] = Idle
      /\ UNCHANGED <<held, matrix, version, sets, faults>>
  BY <1>1 DEF ReadVersion, Goto, tables
<1>3. version \in Versions \cup {0} /\ faults \subseteq Faults
  BY DEF IInv, TypeOK
<1>4. x \in Request
  BY <1>1, <1>3, ReaderType DEF ReaderSteps
<1>5. ShapeOf(x) /\ x.version = version /\ ~x.reseeding /\ x.step \in {"unseeded", "versioned"}
  BY <1>1, <1>3 DEF Reader, ShapeOf, ReaderSteps, Unbumped
<1>6. x.step = "unseeded" => faults' # {}
  BY <1>1, <1>2 DEF Reader, IInv, Core, NothingAhead
<1>7. x.version <= version
  BY <1>3, <1>5, RbacAssumption
<1>8. x.step \notin Unbumped /\ requests[w].step \notin Unbumped
  BY <1>2, <1>5, IdleShape DEF Unbumped
<1> QED  BY <1>2, <1>3, <1>4, <1>5, <1>6, <1>7, <1>8, QuietIInv

LEMMA SeedVersionStep ==
  ASSUME IInv, NEW w \in Workers, SeedVersion(w)
  PROVE  IInv'
<1>1. PICK x : x = Reader("versioned", requests[w].user, 1, {})
  OBVIOUS
<1>2. /\ requests' = [requests EXCEPT ![w] = x] /\ requests[w].step = "unseeded" /\ version' = 1
      /\ UNCHANGED <<held, matrix, sets, faults>>
  BY <1>1 DEF SeedVersion, Goto, tables
<1>3. requests[w].user \in Users /\ faults # {}
  BY <1>2 DEF IInv, Shape, ReaderSteps
<1>4. x \in Request
  BY <1>1, <1>3, ReaderType, RbacAssumption DEF ReaderSteps
<1>5. ShapeOf(x) /\ ~x.reseeding /\ x.step = "versioned"
  BY <1>1, <1>3, RbacAssumption DEF Reader, ShapeOf, ReaderSteps, Unbumped
<1>6. TypeOK'
  BY <1>2, <1>4, TypeStep, RbacAssumption DEF IInv, TypeOK
<1>7. Shape'
  BY <1>2, <1>4, <1>5, ShapeStep DEF IInv
<1> QED  BY <1>2, <1>3, <1>6, <1>7 DEF IInv, Core

LEMMA LookupStep ==
  ASSUME IInv, NEW w \in Workers, Lookup(w)
  PROVE  IInv'
<1>1. requests[w].user \in Users /\ requests[w].version \in Versions /\ requests[w].step = "versioned"
  BY DEF Lookup, IInv, Shape, ReaderSteps
<1>2. PICK x : x = IF sets[requests[w].user][requests[w].version] = Miss
                     THEN Reader("missed", requests[w].user, requests[w].version, {}) ELSE Idle
  OBVIOUS
<1>3. /\ requests' = [requests EXCEPT ![w] = x]
      /\ UNCHANGED <<held, matrix, version, sets, faults>>
  BY <1>2 DEF Lookup, Goto, tables
<1>4. /\ x \in Request /\ ShapeOf(x) /\ ~x.reseeding /\ x.step \in {"missed", "idle"}
      /\ x.version \in {0, requests[w].version}
  <2>1. CASE x = Idle
    BY <2>1, IdleType, IdleShape
  <2>2. CASE x = Reader("missed", requests[w].user, requests[w].version, {})
    <3>1. x \in Request
      BY <1>1, <2>2, ReaderType DEF ReaderSteps
    <3> QED  BY <1>1, <2>2, <3>1 DEF Reader, ShapeOf, ReaderSteps, Unbumped
  <2> QED  BY <1>2, <2>1, <2>2
<1>5. faults = {} => x.version <= version
  BY <1>4, RbacAssumption DEF IInv, Core, NothingAhead, TypeOK
<1>6. faults \subseteq Faults
  BY DEF IInv, TypeOK
<1> QED  BY <1>1, <1>3, <1>4, <1>5, <1>6, QuietIInv DEF Unbumped

LEMMA ResolveStep ==
  ASSUME IInv, NEW w \in Workers, Resolve(w)
  PROVE  IInv'
<1>1. requests[w].user \in Users /\ requests[w].version \in Versions /\ requests[w].step = "missed"
  BY DEF Resolve, IInv, Shape, ReaderSteps
<1>2. PICK u, v : u = requests[w].user /\ v = requests[w].version
  OBVIOUS
<1>3. PICK x : x = Reader("resolved", u, v, resolve_permissions(u))
  OBVIOUS
<1>4. /\ requests' = [requests EXCEPT ![w] = x]
      /\ UNCHANGED <<held, matrix, version, sets, faults>>
  BY <1>2, <1>3 DEF Resolve, Goto, tables
<1>5. resolve_permissions(u) \in SUBSET Codenames
  BY <1>1, <1>2, ResolveType DEF IInv
<1>6. x \in Request
  BY <1>1, <1>2, <1>3, <1>5, ReaderType DEF ReaderSteps
<1>7. /\ ShapeOf(x) /\ ~x.reseeding /\ x.step = "resolved" /\ x.version = v /\ x.user = u
      /\ x.permissions = resolve_permissions(u)
  BY <1>1, <1>2, <1>3 DEF Reader, ShapeOf, ReaderSteps, Unbumped
<1>8. (faults = {} => v <= version) /\ faults \subseteq Faults
  BY <1>2 DEF IInv, Core, NothingAhead, TypeOK
<1> QED  BY <1>1, <1>4, <1>6, <1>7, <1>8, QuietIInv DEF Unbumped

\* The one step that fills the cache: under the current version it files what
\* the tables say, under an older one it files what nobody will look up.
LEMMA StoreSetStep ==
  ASSUME IInv, NEW w \in Workers, StoreSet(w)
  PROVE  IInv'
<1> PICK r : r = requests[w]
  OBVIOUS
<1>1. r \in Request /\ r.user \in Users /\ r.version \in Versions /\ r.step = "resolved"
  BY DEF StoreSet, IInv, TypeOK, Shape, ReaderSteps
<1>2. /\ sets' = [sets EXCEPT ![r.user][r.version] = r.permissions]
      /\ requests' = [requests EXCEPT ![w] = Idle]
      /\ UNCHANGED <<held, matrix, version, faults>>
  BY DEF StoreSet, Goto, tables, CacheKey
<1>3. \A u \in Users, v \in Versions :
         sets'[u][v] = IF u = r.user /\ v = r.version THEN r.permissions ELSE sets[u][v]
  BY <1>1, <1>2 DEF IInv, TypeOK
<1>4. TypeOK'
  BY <1>1, <1>2, IdleType DEF IInv, TypeOK, Request
<1>5. Shape'
  BY <1>2, IdleType, IdleShape, ShapeStep DEF IInv
<1>6. \A v \in Workers : requests'[v] = IF v = w THEN Idle ELSE requests[v]
  BY <1>2 DEF IInv, TypeOK
<1>7. Core'
  <2>1. ChangePending' <=> ChangePending
    BY <1>1, <1>6, IdleShape DEF ChangePending, Unbumped
  <2>2. SUFFICES ASSUME faults = {}  PROVE NothingAhead' /\ (~ChangePending' => Fresh')
    BY <1>2 DEF Core
  <2>3. NothingAhead /\ version \in Versions
    BY <2>2, RbacAssumption DEF IInv, Core, NothingAhead, TypeOK
  <2>4. NothingAhead'
    BY <1>1, <1>2, <1>3, <1>6, <2>3, IdleShape DEF NothingAhead
  <2>5. ASSUME ~ChangePending  PROVE Fresh'
    <3>1. Fresh
      BY <2>2, <2>5 DEF IInv, Core
    <3>2. \A u \in Users : resolve_permissions(u)' = resolve_permissions(u)
      BY <1>2 DEF resolve_permissions
    <3>3. ASSUME NEW u \in Users  PROVE ~Stale(u)'
      <4>1. CASE u = r.user /\ version = r.version
        BY <1>1, <1>2, <1>3, <2>3, <3>1, <3>2, <4>1 DEF Fresh, Stale
      <4>2. CASE ~(u = r.user /\ version = r.version)
        BY <1>2, <1>3, <2>3, <3>1, <3>2, <4>2 DEF Fresh, Stale
      <4> QED  BY <4>1, <4>2
    <3>4. ASSUME NEW v \in Workers, (requests[v].step = "resolved" /\ requests[v].version = version)'
          PROVE  (requests[v].permissions = resolve_permissions(requests[v].user))'
      <4>1. requests'[v] = requests[v]
        BY <1>6, <3>4, IdleShape
      <4>2. requests[v].permissions = resolve_permissions(requests[v].user)
        BY <1>2, <3>1, <3>4, <4>1 DEF Fresh
      <4> QED  BY <1>2, <4>1, <4>2 DEF resolve_permissions
    <3> QED  BY <3>3, <3>4 DEF Fresh
  <2> QED  BY <2>1, <2>4, <2>5
<1> QED  BY <1>4, <1>5, <1>7 DEF IInv

\* A committed write: assign_role, revoke_role, GrantPermission.
LEMMA WriteIInv ==
  ASSUME IInv, NEW w \in Workers, NEW step \in Unbumped, NEW bumps \in 1 .. 2,
         requests' = [requests EXCEPT ![w] = Writer(step, bumps, Nobody, Nobody)],
         held' \in [Users -> SUBSET Roles], matrix' \in [Roles -> SUBSET Codenames],
         UNCHANGED <<version, sets, faults>>
  PROVE  IInv'
<1>1. PICK x : x = Writer(step, bumps, Nobody, Nobody)
  OBVIOUS
<1>2. x \in Request
  <2>1. step \in Steps /\ bumps \in 0 .. 2
    BY DEF Steps
  <2> QED  BY <1>1, <2>1, WriterType
<1>3. ShapeOf(x) /\ ~x.reseeding /\ x.version = 0 /\ x.step = step
  BY <1>1 DEF Writer, ShapeOf, ReaderSteps, Unbumped
<1>4. TypeOK'
  BY <1>1, <1>2, TypeStep DEF IInv, TypeOK
<1>5. Shape'
  BY <1>1, <1>2, <1>3, ShapeStep DEF IInv, Unbumped
<1>6. Core'
  BY <1>1, <1>2, <1>3, WriteStep DEF IInv
<1> QED  BY <1>4, <1>5, <1>6 DEF IInv

LEMMA RoleSteps ==
  ASSUME IInv, NEW w \in Workers, NEW u \in Users, NEW r \in Roles,
         assign_role(w, u, r) \/ revoke_role(w, u, r)
  PROVE  IInv'
<1>1. CASE assign_role(w, u, r)
  <2>1. held' \in [Users -> SUBSET Roles] /\ matrix' \in [Roles -> SUBSET Codenames]
    BY <1>1 DEF assign_role, IInv, TypeOK
  <2>2. /\ requests' = [requests EXCEPT ![w] = Writer("written", 2, Nobody, Nobody)]
        /\ UNCHANGED <<version, sets, faults>>
    BY <1>1 DEF assign_role, Goto
  <2>3. "written" \in Unbumped /\ 2 \in 1 .. 2
    BY DEF Unbumped
  <2> QED  BY <2>1, <2>2, <2>3, WriteIInv
<1>2. CASE revoke_role(w, u, r)
  <2>1. held' \in [Users -> SUBSET Roles] /\ matrix' \in [Roles -> SUBSET Codenames]
    BY <1>2 DEF revoke_role, IInv, TypeOK
  <2>2. /\ requests' = [requests EXCEPT ![w] = Writer("written", 1, Nobody, Nobody)]
        /\ UNCHANGED <<version, sets, faults>>
    BY <1>2 DEF revoke_role, Goto, BumpsAfterRevoke
  <2>3. "written" \in Unbumped /\ 1 \in 1 .. 2
    BY DEF Unbumped
  <2> QED  BY <2>1, <2>2, <2>3, WriteIInv
<1> QED  BY <1>1, <1>2

LEMMA GrantStep ==
  ASSUME IInv, NEW w \in Workers, NEW r \in Roles, NEW c \in Codenames, GrantPermission(w, r, c)
  PROVE  IInv'
<1>1. held' \in [Users -> SUBSET Roles] /\ matrix' \in [Roles -> SUBSET Codenames]
  BY DEF GrantPermission, IInv, TypeOK
<1>2. /\ requests' = [requests EXCEPT ![w] = Writer("saved", 1, Nobody, Nobody)]
      /\ UNCHANGED <<version, sets, faults>>
  BY DEF GrantPermission, Goto
<1>3. "saved" \in Unbumped /\ 1 \in 1 .. 2
  BY DEF Unbumped
<1> QED  BY <1>1, <1>2, <1>3, WriteIInv

LEMMA RemoveStep ==
  ASSUME IInv, NEW w \in Workers, NEW r \in Roles, NEW c \in Codenames, RemovePermission(w, r, c)
  PROVE  IInv'
<1>1. PICK x : x = Writer("deleting", 1, r, c)
  OBVIOUS
<1>2. x \in Request
  BY <1>1, WriterType DEF Steps
<1>3. ShapeOf(x) /\ ~x.reseeding /\ x.version = 0 /\ x.step = "deleting"
  BY <1>1 DEF Writer, ShapeOf, ReaderSteps, Unbumped
<1>4. requests' = [requests EXCEPT ![w] = x] /\ UNCHANGED <<held, matrix, version, sets, faults>>
  BY <1>1 DEF RemovePermission, Goto, tables
<1>5. requests[w].step = "idle" /\ 0 <= version /\ faults \subseteq Faults
  BY IdleShape, RbacAssumption DEF RemovePermission, IInv, TypeOK
<1> QED  BY <1>2, <1>3, <1>4, <1>5, QuietIInv DEF Unbumped

LEMMA CommitRemovalStep ==
  ASSUME IInv, NEW w \in Workers, CommitRemoval(w)
  PROVE  IInv'
<1>1. /\ requests' = [requests EXCEPT ![w] = Idle] /\ faults' = faults \cup {"early bump"}
      /\ matrix' = [matrix EXCEPT ![requests[w].role] = @ \ {requests[w].codename}]
      /\ UNCHANGED <<held, version, sets>>
  BY DEF CommitRemoval, Goto
<1>2. matrix' \in [Roles -> SUBSET Codenames] /\ faults' \subseteq Faults /\ faults' # {}
  BY <1>1 DEF IInv, TypeOK, Faults
<1>3. TypeOK'
  BY <1>1, <1>2, IdleType, TypeStep DEF IInv, TypeOK
<1>4. Shape'
  BY <1>1, IdleType, IdleShape, ShapeStep DEF IInv
<1> QED  BY <1>2, <1>3, <1>4 DEF IInv, Core

LEMMA BumpVersionStep ==
  ASSUME IInv, NEW w \in Workers, BumpVersion(w) \/ ReseedVersion(w)
  PROVE  IInv'
<1> PICK r : r = requests[w]
  OBVIOUS
<1>1. r \in Request /\ r.bumps \in 0 .. 2
  BY DEF IInv, TypeOK, Request
<1>2. CASE BumpVersion(w) /\ version = 0
  <2>1. PICK x : x = [r EXCEPT !.reseeding = TRUE]
    OBVIOUS
  <2>2. /\ x \in Request /\ x.reseeding /\ x.step = r.step /\ x.version = r.version
        /\ x.user = r.user /\ x.role = r.role /\ x.bumps = r.bumps
    BY <1>1, <2>1 DEF Request
  <2>3. requests' = [requests EXCEPT ![w] = x] /\ UNCHANGED <<held, matrix, version, sets, faults>>
    BY <1>2, <2>1 DEF BumpVersion, Goto, tables
  <2>4. faults # {}
    BY <1>2 DEF IInv, Core, NothingAhead
  <2>5. ShapeOf(x)
    BY <1>2, <2>2 DEF BumpVersion, IInv, Shape, ShapeOf
  <2>6. TypeOK'
    BY <2>2, <2>3, TypeStep DEF IInv, TypeOK
  <2>7. Shape'
    BY <2>2, <2>3, <2>4, <2>5, ShapeStep DEF IInv
  <2> QED  BY <2>3, <2>4, <2>6, <2>7 DEF IInv, Core
<1>3. CASE (BumpVersion(w) /\ version # 0) \/ ReseedVersion(w)
  <2>1. r.step \in Unbumped \cup {"deleting"} /\ r.bumps > 0
    <3>1. CASE BumpVersion(w)
      BY <3>1 DEF BumpVersion, IInv, Shape
    <3>2. CASE ReseedVersion(w)
      BY <3>2 DEF ReseedVersion, IInv, Shape
    <3> QED  BY <1>3, <3>1, <3>2
  <2>2. PICK x : x = AfterBump(r)
    OBVIOUS
  <2>3. /\ x \in Request /\ x.step \notin ReaderSteps /\ x.version = 0 /\ ~x.reseeding
        /\ x.bumps > 0 <=> x.step \in Unbumped \cup {"deleting"}
        /\ x.step \in {"deleting", "deleted"} => r.step = "deleting" /\ x.role = r.role
    BY <1>1, <2>1, <2>2, AfterBumpType
  <2>4. ShapeOf(x) /\ x.step # "unseeded"
    BY <2>3 DEF ShapeOf, ReaderSteps, IInv, Shape
  <2>5. requests' = [requests EXCEPT ![w] = x] /\ UNCHANGED <<held, matrix, sets, faults>>
    BY <1>3, <2>2 DEF BumpVersion, ReseedVersion, Goto, tables
  <2>6. version' \in Versions \cup {0}
    BY <1>3, RbacAssumption DEF BumpVersion, ReseedVersion, NextVersion, IInv, TypeOK
  <2>7. TypeOK'
    BY <2>3, <2>5, <2>6, TypeStep DEF IInv, TypeOK
  <2>8. Shape'
    BY <2>3, <2>4, <2>5, ShapeStep DEF IInv
  <2>9. Core'
    <3>1. CASE BumpVersion(w) /\ version # 0
      <4>1. version' = version + 1 /\ version < MaxVersion
        BY <3>1 DEF BumpVersion, NextVersion
      <4> QED  BY <2>3, <2>5, <3>1, <4>1, BumpStep DEF IInv
    <3>2. CASE ReseedVersion(w)
      <4>1. faults # {}
        BY <3>2 DEF ReseedVersion, IInv, Shape
      <4> QED  BY <2>5, <4>1 DEF Core
    <3> QED  BY <1>3, <3>1, <3>2
  <2> QED  BY <2>7, <2>8, <2>9 DEF IInv
<1> QED  BY <1>2, <1>3

LEMMA RecordAndCrashSteps ==
  ASSUME IInv, NEW w \in Workers, Record(w) \/ Crash(w)
  PROVE  IInv'
<1>1. requests' = [requests EXCEPT ![w] = Idle] /\ UNCHANGED <<held, matrix, version, sets>>
  BY DEF Record, Crash, Goto, tables
<1>2. faults \subseteq faults' /\ faults' \subseteq Faults
  BY DEF Record, Crash, IInv, TypeOK, Faults
<1>3. 0 <= version
  BY RbacAssumption DEF IInv, TypeOK
<1>4. CASE requests[w].step \notin Unbumped
  <2>1. Idle.step \notin Unbumped
    BY IdleShape DEF Unbumped
  <2> QED  BY <1>1, <1>2, <1>3, <1>4, <2>1, IdleType, IdleShape, QuietIInv
<1>5. CASE requests[w].step \in Unbumped
  <2>1. faults' # {}
    BY <1>5 DEF Record, Crash, Unbumped
  <2>2. TypeOK'
    BY <1>1, <1>2, IdleType, TypeStep DEF IInv, TypeOK
  <2>3. Shape'
    BY <1>1, <1>2, IdleType, IdleShape, ShapeStep DEF IInv
  <2> QED  BY <2>1, <2>2, <2>3 DEF IInv, Core
<1> QED  BY <1>4, <1>5

LEMMA FaultySteps ==
  ASSUME IInv, (\E r \in Roles, c \in Codenames : BulkGrant(r, c)) \/ ClearCache
  PROVE  IInv'
<1>1. faults' # {} /\ faults \subseteq faults' /\ faults' \subseteq Faults /\ UNCHANGED requests
  BY DEF BulkGrant, ClearCache, IInv, TypeOK, Faults
<1>2. TypeOK'
  <2>1. ASSUME NEW r \in Roles, NEW c \in Codenames, BulkGrant(r, c)
        PROVE  TypeOK'
    <3>1. matrix' \in [Roles -> SUBSET Codenames]
      BY <2>1 DEF BulkGrant, IInv, TypeOK
    <3>2. UNCHANGED <<held, version, sets>>
      BY <2>1 DEF BulkGrant
    <3> QED  BY <1>1, <3>1, <3>2 DEF IInv, TypeOK
  <2>2. CASE ClearCache
    BY <1>1, <2>2 DEF ClearCache, tables, IInv, TypeOK
  <2> QED  BY <2>1, <2>2
<1>3. Shape'
  BY <1>1 DEF IInv, Shape
<1> QED  BY <1>1, <1>2, <1>3 DEF IInv, Core

LEMMA ExpireStep ==
  ASSUME IInv, NEW u \in Users, NEW v \in Versions, Expire(u, v)
  PROVE  IInv'
<1>1. /\ sets' = [sets EXCEPT ![u][v] = Miss]
      /\ UNCHANGED <<held, matrix, version, requests, faults>>
  BY DEF Expire, tables
<1>2. \A a \in Users, b \in Versions :
         sets'[a][b] = IF a = u /\ b = v THEN Miss ELSE sets[a][b]
  BY <1>1 DEF IInv, TypeOK
<1>3. TypeOK'
  BY <1>1 DEF IInv, TypeOK
<1>4. Shape'
  BY <1>1 DEF IInv, Shape
<1>5. Core'
  <2>1. SUFFICES ASSUME faults = {}  PROVE NothingAhead' /\ (~ChangePending' => Fresh')
    BY <1>1 DEF Core
  <2>2. NothingAhead /\ version \in Versions
    BY <2>1, RbacAssumption DEF IInv, Core, NothingAhead, TypeOK
  <2>3. NothingAhead'
    BY <1>1, <1>2, <2>2 DEF NothingAhead
  <2>4. ASSUME ~ChangePending'  PROVE Fresh'
    <3>1. Fresh
      BY <1>1, <2>1, <2>4 DEF ChangePending, IInv, Core
    <3>2. ASSUME NEW a \in Users  PROVE ~Stale(a)'
      BY <1>1, <1>2, <2>2, <3>1 DEF Fresh, Stale, resolve_permissions
    <3>3. \A w \in Workers :
             (requests[w].step = "resolved" /\ requests[w].version = version =>
                requests[w].permissions = resolve_permissions(requests[w].user))'
      BY <1>1, <3>1 DEF Fresh, resolve_permissions
    <3> QED  BY <3>2, <3>3 DEF Fresh
  <2> QED  BY <2>3, <2>4
<1> QED  BY <1>3, <1>4, <1>5 DEF IInv

LEMMA StutterStep ==
  ASSUME IInv, UNCHANGED vars
  PROVE  IInv'
<1>1. TypeOK' /\ Shape'
  BY DEF IInv, vars, TypeOK, Shape
<1>2. Core'
  BY DEF IInv, vars, Core, NothingAhead, Fresh, Stale, ChangePending, resolve_permissions
<1> QED  BY <1>1, <1>2 DEF IInv

LEMMA NextIInv ==
  ASSUME IInv, [Next]_vars
  PROVE  IInv'
<1>1. ASSUME NEW w \in Workers, NEW u \in Users, ReadVersion(w, u)  PROVE IInv'
  BY <1>1, ReadVersionStep
<1>2. ASSUME NEW w \in Workers, SeedVersion(w)  PROVE IInv'
  BY <1>2, SeedVersionStep
<1>3. ASSUME NEW w \in Workers, Lookup(w)  PROVE IInv'
  BY <1>3, LookupStep
<1>4. ASSUME NEW w \in Workers, Resolve(w)  PROVE IInv'
  BY <1>4, ResolveStep
<1>5. ASSUME NEW w \in Workers, StoreSet(w)  PROVE IInv'
  BY <1>5, StoreSetStep
<1>6. ASSUME NEW w \in Workers, NEW u \in Users, NEW r \in Roles,
             assign_role(w, u, r) \/ revoke_role(w, u, r)
      PROVE  IInv'
  BY <1>6, RoleSteps
<1>7. ASSUME NEW w \in Workers, NEW r \in Roles, NEW c \in Codenames,
             GrantPermission(w, r, c) \/ RemovePermission(w, r, c)
      PROVE  IInv'
  BY <1>7, GrantStep, RemoveStep
<1>8. ASSUME NEW w \in Workers, CommitRemoval(w)  PROVE IInv'
  BY <1>8, CommitRemovalStep
<1>9. ASSUME NEW w \in Workers, BumpVersion(w) \/ ReseedVersion(w)  PROVE IInv'
  BY <1>9, BumpVersionStep
<1>10. ASSUME NEW w \in Workers, Record(w) \/ Crash(w)  PROVE IInv'
  BY <1>10, RecordAndCrashSteps
<1>11. ASSUME NEW r \in Roles, NEW c \in Codenames, BulkGrant(r, c)  PROVE IInv'
  BY <1>11, FaultySteps
<1>12. ASSUME NEW u \in Users, NEW v \in Versions, Expire(u, v)  PROVE IInv'
  BY <1>12, ExpireStep
<1>13. CASE ClearCache
  BY <1>13, FaultySteps
<1>14. CASE UNCHANGED vars
  BY <1>14, StutterStep
<1> QED  BY <1>1, <1>2, <1>3, <1>4, <1>5, <1>6, <1>7, <1>8, <1>9, <1>10, <1>11, <1>12, <1>13,
           <1>14 DEF Next

\* Every behaviour stays inside the invariant.
THEOREM RbacInvariance == Spec => []IInv
<1>1. Init => IInv
  BY InitIInv
<1>2. IInv /\ [Next]_vars => IInv'
  BY NextIInv
<1> QED  BY <1>1, <1>2, PTL DEF Spec

\* TypeOK: every variable of the permission cache stays in its range.
THEOREM RbacTypeCorrect == Spec => []TypeOK
<1>1. IInv => TypeOK
  BY DEF IInv
<1> QED  BY <1>1, RbacInvariance, PTL

\* CacheIsCoherent: while the version key is there and no bump is skipped, no
\* cached permission set disagrees with the tables once the change has
\* returned, for any number of readers filling the cache at the same time.
THEOREM RbacCacheIsCoherent == Spec => []CacheIsCoherent
<1>1. IInv => CacheIsCoherent
  BY DEF IInv, Core, Fresh, CacheIsCoherent
<1> QED  BY <1>1, RbacInvariance, PTL

\* LateStoresAreCurrent: nor will any set a reader is still holding.
THEOREM RbacLateStoresAreCurrent == Spec => []LateStoresAreCurrent
<1>1. IInv => LateStoresAreCurrent
  BY DEF IInv, Core, Fresh, LateStoresAreCurrent
<1> QED  BY <1>1, RbacInvariance, PTL

\* VersionNeverGoesBack: only a lost key brings an old version back, so a set
\* left behind by a bump is never looked up again.
THEOREM RbacVersionNeverGoesBack == Spec => VersionNeverGoesBack
<1>1. ASSUME IInv, [Next]_vars  PROVE faults' = {} => version' >= version
  <2>1. version \in Nat
    BY <1>1, RbacAssumption DEF IInv, TypeOK
  <2>2. ASSUME version' # version  PROVE faults' # {} \/ version' >= version
    <3>1. (\E w \in Workers : SeedVersion(w) \/ BumpVersion(w) \/ ReseedVersion(w)) \/ ClearCache
      BY <1>1, <2>2 DEF Next, vars, ReadVersion, Lookup, Resolve, StoreSet, assign_role,
                        revoke_role, GrantPermission, RemovePermission, CommitRemoval, Record,
                        Crash, BulkGrant, Expire
    <3>2. ASSUME NEW w \in Workers, SeedVersion(w) \/ ReseedVersion(w)  PROVE faults' # {}
      BY <1>1, <3>2 DEF SeedVersion, ReseedVersion, IInv, Shape
    <3>3. ASSUME NEW w \in Workers, BumpVersion(w)  PROVE version' >= version
      BY <2>1, <2>2, <3>3 DEF BumpVersion, NextVersion
    <3>4. CASE ClearCache
      BY <3>4 DEF ClearCache
    <3> QED  BY <3>1, <3>2, <3>3, <3>4
  <2>3. version' = version => version' >= version
    BY <2>1
  <2> QED  BY <2>2, <2>3
<1>2. IInv /\ [Next]_vars => [faults' = {} => version' >= version]_vars
  BY <1>1
<1> QED  BY <1>2, RbacInvariance, PTL DEF Spec, VersionNeverGoesBack
----------------------------------------------------------------------------
(* Answers.                                                                *)

\* What is stored or held under the current version stood in the tables since
\* the last change returned; what a call may come to be answered with stood in
\* them since its own beginning.
Stands ==
  \A u \in Users :
    /\ resolve_permissions(u) \in standing[u]
    /\ sets[u][version] # Miss => sets[u][version] \in standing[u]
Holds(w) ==
  LET r == requests[w] IN
  /\ r.step = "resolved" /\ r.version = version => r.permissions \in standing[r.user]
  /\ r.step = "resolved" => r.permissions \in since[w][r.user]
Meets(w) ==
  LET r == requests[w] IN
  r.step = "versioned" =>
    /\ sets[r.user][r.version] # Miss => sets[r.user][r.version] \in since[w][r.user]
    /\ \A v \in Workers :
         requests[v].step = "resolved" /\ requests[v].user = r.user
           /\ requests[v].version = r.version => requests[v].permissions \in since[w][r.user]
Watching(w) ==
  Asking(requests[w]) \/ Owing(requests[w]) =>
    \A u \in Users : resolve_permissions(u) \in since[w][u]
Answers == Stands /\ \A w \in Workers : Holds(w) /\ Meets(w) /\ Watching(w)

AnswersInv == IInv /\ (faults = {} => Answers)

\* Once something has gone wrong it stays so.
LEMMA FaultsStay == [Next]_vars => faults \subseteq faults'
BY DEF Next, vars, ReadVersion, SeedVersion, Lookup, Resolve, StoreSet, assign_role, revoke_role,
       GrantPermission, RemovePermission, CommitRemoval, BumpVersion, ReseedVersion, Record, Crash,
       BulkGrant, Expire, ClearCache

\* What watching a step comes to.
LEMMA WatchedStep ==
  ASSUME Watched
  PROVE  /\ \A u \in Users : resolve_permissions(u)' \in standing'[u]
         /\ (\A w \in Workers : ~Returns(w)) /\ ~ReturnsAtOnce =>
               \A u \in Users : standing[u] \subseteq standing'[u]
         /\ \A w \in Workers, u \in Users :
              /\ Begins(w) => since'[w][u] = standing'[u]
              /\ Asking(requests[w]) /\ Asking(requests'[w]) => since[w][u] \subseteq since'[w][u]
         /\ \A w \in Workers : Watching(w)'
<1>1. \A u \in Users : standing'[u] = StandingOf(u)
  BY DEF Watched
<1>2. \A w \in Workers, u \in Users : since'[w][u] = SinceOf(w, u)
  BY DEF Watched
<1>3. \A u \in Users : resolve_permissions(u)' \in standing'[u]
  BY <1>1 DEF StandingOf
<1>4. ASSUME \A w \in Workers : ~Returns(w), ~ReturnsAtOnce, NEW u \in Users
      PROVE  standing[u] \subseteq standing'[u]
  BY <1>1, <1>4 DEF StandingOf
<1>5. ASSUME NEW w \in Workers, NEW u \in Users
      PROVE  /\ Begins(w) => since'[w][u] = standing'[u]
             /\ Asking(requests[w]) /\ Asking(requests'[w]) => since[w][u] \subseteq since'[w][u]
             /\ Asking(requests'[w]) \/ Owing(requests'[w]) => resolve_permissions(u)' \in since'[w][u]
  <2>1. Begins(w) => ~Commits(w)
    BY DEF Begins, Commits, Asking, Owing, ReaderSteps, Unbumped
  <2>2. Begins(w) => since'[w][u] = standing'[u]
    BY <1>1, <1>2, <2>1 DEF SinceOf
  <2>3. Commits(w) => since'[w][u] = {resolve_permissions(u)'}
    BY <1>2, <2>1 DEF SinceOf
  <2>4. ~Begins(w) /\ ~Commits(w) /\ (Asking(requests'[w]) \/ Owing(requests'[w])) =>
          since'[w][u] = since[w][u] \cup {resolve_permissions(u)'}
    BY <1>2 DEF SinceOf
  <2>5. Asking(requests[w]) /\ Asking(requests'[w]) => ~Begins(w) /\ ~Commits(w)
    BY DEF Begins, Commits, Asking, Owing, ReaderSteps, Unbumped
  <2> QED BY <1>3, <2>2, <2>3, <2>4, <2>5
<1>6. ASSUME NEW w \in Workers PROVE Watching(w)'
  BY <1>5 DEF Watching, Asking, Owing
<1> QED BY <1>3, <1>4, <1>5, <1>6

\* A step of one call that touches neither the sets nor the version: it may
\* begin a request at the current version or resolve what the tables say.
LEMMA CallAnswers ==
  ASSUME IInv, Answers, Watched, NEW w \in Workers, NEW x \in Request,
         requests' = [requests EXCEPT ![w] = x], UNCHANGED <<version, sets>>,
         ~Returns(w), ~ReturnsAtOnce,
         x.step \in {"versioned", "resolved"} => x.user \in Users,
         x.step = "versioned" => x.version = version /\ Begins(w),
         x.step = "resolved" => x.permissions = resolve_permissions(x.user)'
  PROVE  Answers'
<1>1. \A v \in Workers : requests'[v] = IF v = w THEN x ELSE requests[v]
  BY DEF IInv, TypeOK
<1>2. \A v \in Workers : ~Returns(v)
  BY <1>1 DEF Returns
<1>3. /\ \A u \in Users : resolve_permissions(u)' \in standing'[u]
      /\ \A u \in Users : standing[u] \subseteq standing'[u]
      /\ \A v \in Workers, u \in Users :
           /\ Begins(v) => since'[v][u] = standing'[u]
           /\ Asking(requests[v]) /\ Asking(requests'[v]) => since[v][u] \subseteq since'[v][u]
      /\ \A v \in Workers : Watching(v)'
  BY <1>2, WatchedStep
<1>4. Stands'
  BY <1>3 DEF Answers, Stands
<1>5. ASSUME NEW v \in Workers PROVE Holds(v)'
  <2>1. CASE v = w
    <3>1. requests'[v] = x
      BY <1>1, <2>1
    <3>2. ASSUME x.step = "resolved"
          PROVE  x.permissions \in standing'[x.user] /\ x.permissions \in since'[v][x.user]
      <4>1. x.user \in Users /\ Asking(x)
        BY <3>2 DEF Asking, ReaderSteps
      <4> QED BY <1>3, <3>1, <3>2, <4>1 DEF Watching, Asking
    <3> QED BY <3>1, <3>2 DEF Holds
  <2>2. CASE v # w
    <3>1. requests'[v] = requests[v]
      BY <1>1, <2>2
    <3>2. requests[v].step = "resolved" => requests[v].user \in Users /\ Asking(requests[v])
      BY DEF IInv, Shape, Asking, ReaderSteps
    <3> QED BY <1>3, <3>1, <3>2 DEF Holds, Answers
  <2> QED BY <2>1, <2>2
<1>6. ASSUME NEW v \in Workers PROVE Meets(v)'
  <2>1. SUFFICES ASSUME requests'[v].step = "versioned"
        PROVE  LET r == requests'[v] IN
               /\ sets[r.user][r.version] # Miss => sets[r.user][r.version] \in since'[v][r.user]
               /\ \A z \in Workers :
                    requests'[z].step = "resolved" /\ requests'[z].user = r.user
                      /\ requests'[z].version = r.version =>
                         requests'[z].permissions \in since'[v][r.user]
    BY DEF Meets
  <2>2. PICK r : r = requests'[v]
    OBVIOUS
  <2>3. r.user \in Users /\ Asking(r) /\ resolve_permissions(r.user)' \in since'[v][r.user]
    <3>1. r.user \in Users /\ Asking(r)
      BY <1>1, <2>1, <2>2 DEF IInv, Shape, Asking, ReaderSteps
    <3> QED BY <1>3, <2>2, <3>1 DEF Watching, Asking
  <2>4. CASE v = w
    <3>1. r = x /\ Begins(v) /\ r.version = version /\ x.step # "resolved"
      BY <1>1, <2>1, <2>2, <2>4
    <3>2. since'[v][r.user] = standing'[r.user] /\ standing[r.user] \subseteq standing'[r.user]
      BY <1>3, <2>3, <3>1
    <3>3. sets[r.user][r.version] # Miss => sets[r.user][r.version] \in standing[r.user]
      BY <2>3, <3>1 DEF Answers, Stands
    <3>4. ASSUME NEW z \in Workers, requests'[z].step = "resolved",
                 requests'[z].user = r.user, requests'[z].version = r.version
          PROVE  requests'[z].permissions \in standing[r.user]
      <4>1. requests'[z] = requests[z]
        BY <1>1, <3>1, <3>4
      <4> QED BY <3>1, <3>4, <4>1 DEF Answers, Holds
    <3> QED BY <2>2, <3>2, <3>3, <3>4
  <2>5. CASE v # w
    <3>1. r = requests[v] /\ since[v][r.user] \subseteq since'[v][r.user]
      BY <1>1, <1>3, <2>2, <2>3, <2>5
    <3>2. sets[r.user][r.version] # Miss => sets[r.user][r.version] \in since[v][r.user]
      BY <2>1, <2>2, <3>1 DEF Answers, Meets
    <3>3. ASSUME NEW z \in Workers, requests'[z].step = "resolved",
                 requests'[z].user = r.user, requests'[z].version = r.version
          PROVE  requests'[z].permissions \in since'[v][r.user]
      <4>1. CASE z = w
        <5>1. requests'[z].permissions = resolve_permissions(r.user)'
          BY <1>1, <3>3, <4>1
        <5> QED BY <2>3, <5>1
      <4>2. CASE z # w
        <5>1. requests'[z] = requests[z]
          BY <1>1, <4>2
        <5>2. requests[z].permissions \in since[v][r.user]
          BY <2>1, <2>2, <3>1, <3>3, <5>1 DEF Answers, Meets
        <5> QED BY <3>1, <5>1, <5>2
      <4> QED BY <4>1, <4>2
    <3> QED BY <2>2, <3>1, <3>2, <3>3
  <2> QED BY <2>4, <2>5
<1> QED BY <1>3, <1>4, <1>5, <1>6 DEF Answers

\* A step that starts no request and resolves nothing: what it stores is what a
\* reader held, and it leaves the version or moves to one nobody has used.
LEMMA CacheAnswers ==
  ASSUME IInv, Answers, Watched,
         \A v \in Workers :
           requests'[v] = requests[v] \/ requests'[v].step \notin {"versioned", "resolved"},
         \A u \in Users, n \in Versions :
           \/ sets'[u][n] \in {Miss, sets[u][n]}
           \/ \E z \in Workers :
                /\ requests[z].step = "resolved" /\ requests[z].user = u
                /\ requests[z].version = n /\ requests[z].permissions = sets'[u][n],
         \/ /\ version' = version /\ version \in Versions
            /\ (\A v \in Workers : ~Returns(v)) /\ ~ReturnsAtOnce
         \/ /\ \A u \in Users : sets'[u][version'] = Miss
            /\ \A v \in Workers : requests[v].step = "resolved" => requests[v].version # version'
  PROVE  Answers'
<1>1. /\ \A u \in Users : resolve_permissions(u)' \in standing'[u]
      /\ \A v \in Workers, u \in Users :
           Asking(requests[v]) /\ Asking(requests'[v]) => since[v][u] \subseteq since'[v][u]
      /\ \A v \in Workers : Watching(v)'
  BY WatchedStep
<1>2. \/ /\ version' = version /\ version \in Versions
         /\ \A u \in Users : standing[u] \subseteq standing'[u]
      \/ /\ \A u \in Users : sets'[u][version'] = Miss
         /\ \A v \in Workers : requests[v].step = "resolved" => requests[v].version # version'
  BY WatchedStep
<1>3. ASSUME NEW v \in Workers, requests'[v].step \in {"versioned", "resolved"}
      PROVE  /\ requests'[v] = requests[v] /\ requests[v].user \in Users
             /\ requests[v].version \in Versions
             /\ since[v][requests[v].user] \subseteq since'[v][requests[v].user]
  <2>1. requests'[v] = requests[v] /\ Asking(requests[v])
    BY <1>3 DEF Asking, ReaderSteps
  <2>2. requests[v].user \in Users /\ requests[v].version \in Versions
    BY <1>3, <2>1 DEF IInv, Shape, ReaderSteps
  <2> QED BY <1>1, <2>1, <2>2
<1>4. Stands'
  <2>1. ASSUME NEW u \in Users, sets'[u][version'] # Miss
        PROVE  sets'[u][version'] \in standing'[u]
    <3>1. /\ version' = version /\ version \in Versions
          /\ standing[u] \subseteq standing'[u]
      BY <1>2, <2>1
    <3>2. CASE sets'[u][version] = sets[u][version]
      BY <2>1, <3>1, <3>2 DEF Answers, Stands
    <3>3. ASSUME NEW z \in Workers, requests[z].step = "resolved", requests[z].user = u,
                 requests[z].version = version, requests[z].permissions = sets'[u][version]
          PROVE  sets'[u][version] \in standing[u]
      BY <3>3 DEF Answers, Holds
    <3> QED BY <2>1, <3>1, <3>2, <3>3
  <2> QED BY <1>1, <2>1 DEF Stands
<1>5. ASSUME NEW v \in Workers PROVE Holds(v)'
  <2>1. SUFFICES ASSUME requests'[v].step = "resolved"
        PROVE  /\ requests'[v].version = version' =>
                    requests'[v].permissions \in standing'[requests'[v].user]
               /\ requests'[v].permissions \in since'[v][requests'[v].user]
    BY DEF Holds
  <2>2. PICK r : r = requests[v]
    OBVIOUS
  <2>3. /\ requests'[v] = r /\ r.user \in Users /\ since[v][r.user] \subseteq since'[v][r.user]
        /\ r.step = "resolved"
    BY <1>3, <2>1, <2>2
  <2>4. r.permissions \in since[v][r.user] /\ (r.version = version => r.permissions \in standing[r.user])
    BY <2>2, <2>3 DEF Answers, Holds
  <2>5. r.version = version' => r.version = version /\ standing[r.user] \subseteq standing'[r.user]
    BY <1>2, <2>2, <2>3
  <2> QED BY <2>3, <2>4, <2>5
<1>6. ASSUME NEW v \in Workers PROVE Meets(v)'
  <2>1. SUFFICES ASSUME requests'[v].step = "versioned"
        PROVE  LET r == requests'[v] IN
               /\ sets'[r.user][r.version] # Miss => sets'[r.user][r.version] \in since'[v][r.user]
               /\ \A z \in Workers :
                    requests'[z].step = "resolved" /\ requests'[z].user = r.user
                      /\ requests'[z].version = r.version =>
                         requests'[z].permissions \in since'[v][r.user]
    BY DEF Meets
  <2>2. PICK r : r = requests[v]
    OBVIOUS
  <2>3. /\ requests'[v] = r /\ r.user \in Users /\ r.version \in Versions
        /\ r.step = "versioned" /\ since[v][r.user] \subseteq since'[v][r.user]
    BY <1>3, <2>1, <2>2
  <2>4. /\ sets[r.user][r.version] # Miss => sets[r.user][r.version] \in since[v][r.user]
        /\ \A z \in Workers :
             requests[z].step = "resolved" /\ requests[z].user = r.user
               /\ requests[z].version = r.version => requests[z].permissions \in since[v][r.user]
    BY <2>2, <2>3 DEF Answers, Meets
  <2>5. sets'[r.user][r.version] # Miss => sets'[r.user][r.version] \in since[v][r.user]
    BY <2>3, <2>4
  <2>6. ASSUME NEW z \in Workers, requests'[z].step = "resolved",
               requests'[z].user = r.user, requests'[z].version = r.version
        PROVE  requests'[z].permissions \in since[v][r.user]
    <3>1. requests'[z] = requests[z]
      BY <1>3, <2>6
    <3> QED BY <2>4, <2>6, <3>1
  <2> QED BY <2>3, <2>5, <2>6
<1> QED BY <1>1, <1>4, <1>5, <1>6 DEF Answers

\* As long as nothing has gone wrong the key is there.
LEMMA NothingWrong ==
  ASSUME IInv, faults = {}
  PROVE  /\ version \in Versions
         /\ \A w \in Workers : requests[w].step # "unseeded" /\ ~requests[w].reseeding
         /\ \A u \in Users, v \in Versions : sets[u][v] # Miss => v <= version
         /\ \A w \in Workers : requests[w].version <= version
BY RbacAssumption DEF IInv, TypeOK, Shape, Core, NothingAhead

LEMMA ReaderAnswers ==
  ASSUME IInv, Answers, Watched, faults = {}, NEW w \in Workers,
         (\E u \in Users : ReadVersion(w, u)) \/ Lookup(w) \/ Resolve(w)
  PROVE  Answers'
<1>1. /\ UNCHANGED <<held, matrix, version, sets>>
      /\ version \in Versions /\ version # 0
  BY NothingWrong DEF ReadVersion, Lookup, Resolve, tables
<1>2. ~ReturnsAtOnce
  BY <1>1 DEF ReturnsAtOnce, tables
<1>3. ~Owing(requests[w])
  BY IdleShape DEF Owing, Unbumped, ReadVersion, Lookup, Resolve
<1>4. ASSUME NEW u \in Users, ReadVersion(w, u)  PROVE Answers'
  <2>1. PICK x : x = Reader("versioned", u, version, {})
    OBVIOUS
  <2>2. x \in Request
    BY <1>1, <2>1, ReaderType DEF ReaderSteps
  <2>3. x.step = "versioned" /\ x.user = u /\ x.version = version
    BY <2>1 DEF Reader
  <2>4. requests' = [requests EXCEPT ![w] = x]
    BY <1>1, <1>4, <2>1 DEF ReadVersion, Goto
  <2>5. requests'[w] = x
    BY <2>4 DEF IInv, TypeOK
  <2>6. Begins(w) /\ ~Returns(w)
    BY <1>3, <1>4, <2>3, <2>5, IdleShape
       DEF ReadVersion, Begins, Returns, Asking, ReaderSteps
  <2> QED BY <1>1, <1>2, <2>2, <2>3, <2>4, <2>6, CallAnswers
<1>5. CASE Lookup(w)
  <2>1. PICK r : r = requests[w]
    OBVIOUS
  <2>2. r.user \in Users /\ r.version \in Versions
    BY <1>5, <2>1 DEF Lookup, IInv, Shape, ReaderSteps
  <2>3. PICK x : x = IF sets[r.user][r.version] = Miss
                       THEN Reader("missed", r.user, r.version, {}) ELSE Idle
    OBVIOUS
  <2>4. x \in Request
    BY <2>2, <2>3, ReaderType, IdleType DEF ReaderSteps
  <2>5. x.step \notin {"versioned", "resolved"}
    BY <2>3, IdleShape DEF Reader
  <2>6. requests' = [requests EXCEPT ![w] = x]
    BY <1>5, <2>1, <2>3 DEF Lookup, Goto
  <2>7. ~Returns(w)
    BY <1>3 DEF Returns
  <2> QED BY <1>1, <1>2, <2>4, <2>5, <2>6, <2>7, CallAnswers
<1>6. CASE Resolve(w)
  <2>1. PICK r : r = requests[w]
    OBVIOUS
  <2>2. r.user \in Users /\ r.version \in Versions
    BY <1>6, <2>1 DEF Resolve, IInv, Shape, ReaderSteps
  <2>3. PICK x : x = Reader("resolved", r.user, r.version, resolve_permissions(r.user))
    OBVIOUS
  <2>4. x \in Request
    BY <2>2, <2>3, ReaderType, ResolveType DEF ReaderSteps, IInv
  <2>5. /\ x.step = "resolved" /\ x.user = r.user
        /\ x.permissions = resolve_permissions(r.user)
    BY <2>3 DEF Reader
  <2>6. x.permissions = resolve_permissions(x.user)'
    BY <1>1, <2>5 DEF resolve_permissions
  <2>7. requests' = [requests EXCEPT ![w] = x]
    BY <1>6, <2>1, <2>3 DEF Resolve, Goto
  <2>8. ~Returns(w)
    BY <1>3 DEF Returns
  <2> QED BY <1>1, <1>2, <2>2, <2>4, <2>5, <2>6, <2>7, <2>8, CallAnswers
<1> QED BY <1>4, <1>5, <1>6

\* A change is committed by a call that was idle and that now owes its bumps.
LEMMA ChangeAnswers ==
  ASSUME IInv, Answers, Watched, NEW w \in Workers, NEW x \in Request,
         requests[w] = Idle, requests' = [requests EXCEPT ![w] = x],
         UNCHANGED <<version, sets>>, x.step \notin {"versioned", "resolved"},
         Owing(x) \/ UNCHANGED tables
  PROVE  Answers'
<1>1. requests'[w] = x
  BY DEF IInv, TypeOK
<1>2. ~Owing(requests[w])
  BY IdleShape DEF Owing, Unbumped
<1>3. ~Returns(w) /\ ~ReturnsAtOnce
  BY <1>1, <1>2 DEF Returns, ReturnsAtOnce, Commits
<1> QED BY <1>3, CallAnswers

LEMMA WriterAnswers ==
  ASSUME IInv, Answers, Watched, NEW w \in Workers,
         \/ \E u \in Users, r \in Roles : assign_role(w, u, r) \/ revoke_role(w, u, r)
         \/ \E r \in Roles, c \in Codenames : GrantPermission(w, r, c) \/ RemovePermission(w, r, c)
  PROVE  Answers'
<1>1. requests[w] = Idle /\ UNCHANGED <<version, sets>>
  BY DEF assign_role, revoke_role, GrantPermission, RemovePermission
<1>2. ASSUME NEW x \in Request, requests' = [requests EXCEPT ![w] = x],
             \/ x.step \in Unbumped
             \/ x.step = "deleting" /\ UNCHANGED tables
      PROVE  Answers'
  <2>1. x.step \notin {"versioned", "resolved"} /\ (Owing(x) \/ UNCHANGED tables)
    BY <1>2 DEF Owing, Unbumped
  <2> QED BY <1>1, <1>2, <2>1, ChangeAnswers
<1>3. ASSUME NEW u \in Users, NEW r \in Roles, assign_role(w, u, r)  PROVE Answers'
  <2>1. PICK x : x = Writer("written", 2, Nobody, Nobody)
    OBVIOUS
  <2>2. x \in Request /\ x.step = "written"
    BY <2>1, WriterType DEF Writer, Steps, Unbumped
  <2>3. requests' = [requests EXCEPT ![w] = x]
    BY <1>3, <2>1 DEF assign_role, Goto
  <2> QED BY <1>2, <2>2, <2>3 DEF Unbumped
<1>4. ASSUME NEW u \in Users, NEW r \in Roles, revoke_role(w, u, r)  PROVE Answers'
  <2>1. PICK x : x = Writer("written", 1, Nobody, Nobody)
    OBVIOUS
  <2>2. x \in Request /\ x.step = "written"
    BY <2>1, WriterType DEF Writer, Steps, Unbumped
  <2>3. requests' = [requests EXCEPT ![w] = x]
    BY <1>4, <2>1 DEF revoke_role, BumpsAfterRevoke, Goto
  <2> QED BY <1>2, <2>2, <2>3 DEF Unbumped
<1>5. ASSUME NEW r \in Roles, NEW c \in Codenames, GrantPermission(w, r, c)  PROVE Answers'
  <2>1. PICK x : x = Writer("saved", 1, Nobody, Nobody)
    OBVIOUS
  <2>2. x \in Request /\ x.step = "saved"
    BY <2>1, WriterType DEF Writer, Steps, Unbumped
  <2>3. requests' = [requests EXCEPT ![w] = x]
    BY <1>5, <2>1 DEF GrantPermission, Goto
  <2> QED BY <1>2, <2>2, <2>3 DEF Unbumped
<1>6. ASSUME NEW r \in Roles, NEW c \in Codenames, RemovePermission(w, r, c)  PROVE Answers'
  <2>1. PICK x : x = Writer("deleting", 1, r, c)
    OBVIOUS
  <2>2. x \in Request /\ x.step = "deleting"
    BY <2>1, WriterType DEF Writer, Steps, Unbumped
  <2>3. requests' = [requests EXCEPT ![w] = x] /\ UNCHANGED tables
    BY <1>6, <2>1 DEF RemovePermission, Goto
  <2> QED BY <1>2, <2>2, <2>3
<1> QED BY <1>3, <1>4, <1>5, <1>6

\* A call that ends, owing nothing, and stores what it was holding or nothing.
LEMMA EndAnswers ==
  ASSUME IInv, Answers, Watched, faults = {}, NEW w \in Workers,
         requests' = [requests EXCEPT ![w] = Idle], UNCHANGED <<held, matrix, version>>,
         ~Owing(requests[w]),
         \A u \in Users, n \in Versions :
           \/ sets'[u][n] \in {Miss, sets[u][n]}
           \/ /\ requests[w].step = "resolved" /\ requests[w].user = u
              /\ requests[w].version = n /\ requests[w].permissions = sets'[u][n]
  PROVE  Answers'
<1>1. \A v \in Workers : requests'[v] = IF v = w THEN Idle ELSE requests[v]
  BY DEF IInv, TypeOK
<1>2. ~ReturnsAtOnce /\ \A v \in Workers : ~Returns(v)
  BY <1>1 DEF Returns, ReturnsAtOnce, tables
<1>3. \A v \in Workers :
        requests'[v] = requests[v] \/ requests'[v].step \notin {"versioned", "resolved"}
  BY <1>1, IdleShape
<1>4. version' = version /\ version \in Versions
  BY NothingWrong
<1> QED BY <1>2, <1>3, <1>4, CacheAnswers

LEMMA StoreSetAnswers ==
  ASSUME IInv, Answers, Watched, faults = {}, NEW w \in Workers, StoreSet(w)
  PROVE  Answers'
<1>1. PICK r : r = requests[w]
  OBVIOUS
<1>2. /\ r.step = "resolved" /\ r.user \in Users /\ r.version \in Versions
      /\ sets' = [sets EXCEPT ![r.user][r.version] = r.permissions]
      /\ requests' = [requests EXCEPT ![w] = Idle]
      /\ UNCHANGED <<held, matrix, version>>
  BY <1>1 DEF StoreSet, CacheKey, Goto, tables, IInv, Shape, ReaderSteps
<1>3. \A u \in Users, n \in Versions :
        sets'[u][n] = IF u = r.user /\ n = r.version THEN r.permissions ELSE sets[u][n]
  BY <1>2 DEF IInv, TypeOK
<1>4. ~Owing(requests[w])
  BY <1>1, <1>2 DEF Owing, Unbumped
<1>5. ASSUME NEW u \in Users, NEW n \in Versions
      PROVE  \/ sets'[u][n] \in {Miss, sets[u][n]}
             \/ /\ requests[w].step = "resolved" /\ requests[w].user = u
                /\ requests[w].version = n /\ requests[w].permissions = sets'[u][n]
  BY <1>1, <1>2, <1>3
<1> QED BY <1>2, <1>4, <1>5, EndAnswers

LEMMA RecordAndCrashAnswers ==
  ASSUME IInv, Answers, Watched, faults' = {}, faults = {}, NEW w \in Workers,
         Record(w) \/ Crash(w)
  PROVE  Answers'
<1>1. requests' = [requests EXCEPT ![w] = Idle] /\ UNCHANGED <<held, matrix, version, sets>>
  BY DEF Record, Crash, Goto, tables
<1>2. ~Owing(requests[w])
  BY DEF Record, Crash, Owing, Unbumped
<1> QED BY <1>1, <1>2, EndAnswers

LEMMA ExpireAnswers ==
  ASSUME IInv, Answers, Watched, faults = {}, NEW u \in Users, NEW n \in Versions, Expire(u, n)
  PROVE  Answers'
<1>1. /\ sets' = [sets EXCEPT ![u][n] = Miss]
      /\ UNCHANGED <<held, matrix, version, requests>>
  BY DEF Expire, tables
<1>2. \A a \in Users, b \in Versions : sets'[a][b] \in {Miss, sets[a][b]}
  BY <1>1 DEF IInv, TypeOK
<1>3. ~ReturnsAtOnce /\ \A v \in Workers : ~Returns(v)
  BY <1>1 DEF Returns, ReturnsAtOnce, tables
<1>4. version' = version /\ version \in Versions
  BY <1>1, NothingWrong
<1> QED BY <1>1, <1>2, <1>3, <1>4, CacheAnswers

\* A change that returns leaves every set and every reader behind.
LEMMA BumpAnswers ==
  ASSUME IInv, Answers, Watched, faults = {}, NEW w \in Workers, BumpVersion(w)
  PROVE  Answers'
<1>1. /\ version' = version + 1 /\ version < MaxVersion /\ version \in Nat
      /\ requests' = [requests EXCEPT ![w] = AfterBump(requests[w])]
      /\ UNCHANGED sets
  BY NothingWrong, RbacAssumption DEF BumpVersion, NextVersion, Goto
<1>2. version' \in Versions
  BY <1>1, RbacAssumption
<1>3. \A u \in Users : sets'[u][version'] = Miss
  BY <1>1, <1>2, NothingWrong
<1>4. \A v \in Workers : requests[v].step = "resolved" => requests[v].version # version'
  <2>1. \A v \in Workers : requests[v].step = "resolved" => requests[v].version \in Versions
    BY DEF IInv, Shape, ReaderSteps
  <2> QED BY <1>1, <2>1, NothingWrong
<1>5. AfterBump(requests[w]).step \notin ReaderSteps
  <2>1. /\ requests[w] \in Request /\ requests[w].bumps > 0
        /\ requests[w].step \in Unbumped \cup {"deleting"}
    BY DEF BumpVersion, IInv, TypeOK, Shape
  <2> QED BY <2>1, AfterBumpType
<1>6. \A v \in Workers :
        requests'[v] = requests[v] \/ requests'[v].step \notin {"versioned", "resolved"}
  BY <1>1, <1>5 DEF IInv, TypeOK, ReaderSteps
<1> QED BY <1>1, <1>3, <1>4, <1>6, CacheAnswers

LEMMA StutterAnswers ==
  ASSUME Answers, UNCHANGED answerVars
  PROVE  Answers'
BY DEF answerVars, vars, Answers, Stands, Holds, Meets, Watching, Asking, Owing, resolve_permissions

LEMMA NextAnswers ==
  ASSUME AnswersInv, [AnswersNext]_answerVars
  PROVE  AnswersInv'
<1>1. [Next]_vars
  BY DEF AnswersNext, answerVars
<1>2. IInv'
  BY <1>1, NextIInv DEF AnswersInv
<1>3. ASSUME faults' = {}  PROVE Answers'
  <2>1. faults = {} /\ IInv /\ Answers
    BY <1>1, <1>3, FaultsStay DEF AnswersInv
  <2>2. CASE UNCHANGED answerVars
    BY <2>1, <2>2, StutterAnswers
  <2>3. CASE AnswersNext
    <3>1. Watched /\ Next
      BY <1>3, <2>3 DEF AnswersNext
    <3>2. ASSUME NEW w \in Workers,
                 (\E u \in Users : ReadVersion(w, u)) \/ Lookup(w) \/ Resolve(w)
          PROVE  Answers'
      BY <2>1, <3>1, <3>2, ReaderAnswers
    <3>3. ASSUME NEW w \in Workers,
                 \/ \E u \in Users, r \in Roles : assign_role(w, u, r) \/ revoke_role(w, u, r)
                 \/ \E r \in Roles, c \in Codenames :
                      GrantPermission(w, r, c) \/ RemovePermission(w, r, c)
          PROVE  Answers'
      BY <2>1, <3>1, <3>3, WriterAnswers
    <3>4. ASSUME NEW w \in Workers, StoreSet(w)  PROVE Answers'
      BY <2>1, <3>1, <3>4, StoreSetAnswers
    <3>5. ASSUME NEW w \in Workers, Record(w) \/ Crash(w)  PROVE Answers'
      BY <1>3, <2>1, <3>1, <3>5, RecordAndCrashAnswers
    <3>6. ASSUME NEW w \in Workers, BumpVersion(w)  PROVE Answers'
      BY <2>1, <3>1, <3>6, BumpAnswers
    <3>7. ASSUME NEW u \in Users, NEW n \in Versions, Expire(u, n)  PROVE Answers'
      BY <2>1, <3>1, <3>7, ExpireAnswers
    <3>8. ASSUME NEW w \in Workers, SeedVersion(w) \/ ReseedVersion(w)  PROVE FALSE
      BY <2>1, <3>8, NothingWrong DEF SeedVersion, ReseedVersion
    <3>9. ASSUME NEW w \in Workers, CommitRemoval(w)  PROVE FALSE
      BY <1>3, <3>9 DEF CommitRemoval
    <3>10. ASSUME NEW r \in Roles, NEW c \in Codenames, BulkGrant(r, c)  PROVE FALSE
      BY <1>3, <3>10 DEF BulkGrant
    <3>11. ~ClearCache
      BY <1>3 DEF ClearCache
    <3> QED BY <3>1, <3>2, <3>3, <3>4, <3>5, <3>6, <3>7, <3>8, <3>9, <3>10, <3>11 DEF Next
  <2> QED BY <2>2, <2>3
<1> QED BY <1>2, <1>3 DEF AnswersInv

LEMMA InitAnswers == AnswersInit => AnswersInv
<1>1. SUFFICES ASSUME AnswersInit, faults = {}  PROVE Answers
  BY InitIInv DEF AnswersInit, AnswersInv
<1>2. \A w \in Workers : requests[w].step = "idle"
  BY <1>1, IdleShape DEF AnswersInit, Init
<1>3. \A u \in Users : standing[u] = {resolve_permissions(u)}
  BY <1>1 DEF AnswersInit
<1>4. version \in Versions
  BY <1>1, InitIInv, NothingWrong DEF AnswersInit
<1>5. \A u \in Users : sets[u][version] = Miss
  BY <1>1, <1>4 DEF AnswersInit, Init
<1> QED BY <1>2, <1>3, <1>5
        DEF Answers, Stands, Holds, Meets, Watching, Asking, Owing, ReaderSteps, Unbumped

\* AnswersAreCurrent: while no invalidation has gone wrong, every request is
\* answered with what the tables said during it, or since the last change that
\* had returned when it began: for any number of calls, however they interleave.
THEOREM RbacAnswersAreCurrent == AnswersSpec => []AnswersAreCurrent
<1>1. AnswersInit => AnswersInv
  BY InitAnswers
<1>2. AnswersInv /\ [AnswersNext]_answerVars => AnswersInv'
  BY NextAnswers
<1>3. AnswersInv => AnswersAreCurrent
  BY DEF AnswersInv, Answers, Holds, Meets, AnswersAreCurrent
<1> QED BY <1>1, <1>2, <1>3, PTL DEF AnswersSpec
================================================================================
