------------------------------- MODULE UiTypes -------------------------------
(***************************************************************************)
(* The value types shared by the library: view identities and revisions    *)
(* (src/ids.rs), callback capabilities and their policies (src/action.rs). *)
(*                                                                         *)
(* A token is a model value: what distinguishes two tokens is only that    *)
(* they are different.  A revision is a u64 in the code; MaxRevision is    *)
(* u64::MAX here, so that exhaustion is within reach of a small model.     *)
(***************************************************************************)
EXTENDS Naturals

CONSTANTS
    Views,        \* ViewId values
    Users,        \* UserId values
    Tokens,       \* ActionToken values
    TTLs,         \* Option<Duration> arguments of register_with_ttl
    MaxRevision,  \* the largest Revision (u64::MAX)
    MaxTime,      \* bound on the monotonic clock, for TLC only
    AnyActor,     \* ActorPolicy::Any
    None          \* Option::None

ASSUME RevisionAssumption == MaxRevision \in Nat
ASSUME TimeAssumption == MaxTime \in Nat
ASSUME TTLAssumption == TTLs \subseteq Nat \cup {None}
ASSUME NoneAssumption ==
    /\ None \notin Nat
    /\ None \notin Users
    /\ None \notin Tokens

-----------------------------------------------------------------------------
(* Revisions. *)

Revision == 0 .. MaxRevision

Initial == 0

\* Mutated form of CheckedNext: the counter has no end.
CheckedNextUnbounded(r) == r + 1

\* Revision::checked_next: None on numeric exhaustion.
CheckedNext(r) == IF r = MaxRevision THEN None ELSE r + 1

-----------------------------------------------------------------------------
(* Capabilities. *)

\* ActorPolicy::User(u) is u itself.
ActorPolicy == Users \cup {AnyActor}

Permits(policy, user) == policy \in {AnyActor, user}

StalePolicy == {"reject", "applyToLatest", "idempotent"}

\* Mutated form of Accepts: the Reject arm falls through to the lenient one.
AcceptsOlder(policy, tokenRevision, currentRevision) ==
    tokenRevision <= currentRevision

\* StalePolicy::accepts.
Accepts(policy, tokenRevision, currentRevision) ==
    IF policy = "reject" THEN tokenRevision = currentRevision
                         ELSE tokenRevision <= currentRevision

\* Option<Instant>.
Expiry == Nat \cup {None}

\* ActionRecord; its token is the key it is stored under, and its action is
\* opaque to every component of the library.
ActionRecord ==
    [view : Views, revision : Revision, actor : ActorPolicy,
     stale : StalePolicy, expires : Expiry]

\* What an ActionRecord allows, as long as it has not expired.
Capability ==
    [view : Views, revision : Revision, actor : ActorPolicy,
     stale : StalePolicy]

ASSUME NoneIsNoRecord == None \notin ActionRecord \cup Capability

\* The test resolve makes of an entry, at the instant the clock reads.
Expired(record, clock) == record.expires # None /\ clock >= record.expires

\* Mutated form of ExpiresAt: the duration is counted back.
ExpiredAt(clock, ttl) == IF ttl = None THEN None ELSE clock - ttl

\* ttl.map(|duration| clock + duration)
ExpiresAt(clock, ttl) == IF ttl = None THEN None ELSE clock + ttl
=============================================================================
