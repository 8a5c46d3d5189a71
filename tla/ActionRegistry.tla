--------------------------- MODULE ActionRegistry ---------------------------
(***************************************************************************)
(* The in-memory registry of callback capabilities (src/action.rs).        *)
(*                                                                         *)
(* Every operation takes the registry's mutex once, so each is one action. *)
(* What is not atomic is the clock: register_with_ttl and prune_expired    *)
(* read Instant::now() BEFORE they take the lock, so the reading they act  *)
(* on (the parameter clock below) is any instant up to the present one;    *)
(* resolve reads it while it holds the lock.                               *)
(***************************************************************************)
EXTENDS UiTypes

VARIABLES
    entries,  \* RegistryState.entries: the live record of each token, or None
    minted,   \* history variable: the record each token was registered with
    now       \* the monotonic clock

vars == <<entries, minted, now>>

TypeOK ==
    /\ entries \in [Tokens -> ActionRecord \cup {None}]
    /\ minted \in [Tokens -> ActionRecord \cup {None}]
    /\ now \in Nat

Init ==
    /\ entries = [t \in Tokens |-> None]
    /\ minted = [t \in Tokens |-> None]
    /\ now = 0

-----------------------------------------------------------------------------
(* Registration. *)

\* Record built by register_with_ttl from a clock reading.
NewRecord(v, r, actor, stale, clock, ttl) ==
    [view |-> v, revision |-> r, actor |-> actor, stale |-> stale,
     expires |-> ExpiresAt(clock, ttl)]

\* Mutated form of Generated: the contains_key check of the loop and the
\* uniqueness of the generator are both gone.
GeneratedAny(t) == t \in Tokens

\* The loop around ActionToken::generated leaves with a token that is not in
\* the map.  That a v4 UUID also never repeats one whose entry has been
\* dropped is an assumption on the external generator.
Generated(t) == entries[t] = None /\ minted[t] = None

Register(t, v, r, actor, stale, clock, ttl) ==
    LET record == NewRecord(v, r, actor, stale, clock, ttl)
    IN  /\ Generated(t)
        /\ entries' = [entries EXCEPT ![t] = record]
        /\ minted' = [minted EXCEPT ![t] = record]
        /\ UNCHANGED now

-----------------------------------------------------------------------------
(* Resolution. *)

Errors == {"unknown", "expired", "actorMismatch", "viewMismatch", "stale"}

\* The outcome of resolve, its checks in the order of the code.
Resolution(t, actor, v, currentRevision) ==
    IF entries[t] = None THEN "unknown"
    ELSE IF Expired(entries[t], now) THEN "expired"
    ELSE IF ~Permits(entries[t].actor, actor) THEN "actorMismatch"
    ELSE IF entries[t].view # v THEN "viewMismatch"
    ELSE IF ~Accepts(entries[t].stale, entries[t].revision, currentRevision)
         THEN "stale"
    ELSE "ok"

\* Mutated form of Resolve: whatever is rejected is also forgotten.
ResolveForgetsRejected(t, actor, v, currentRevision) ==
    /\ entries' = IF Resolution(t, actor, v, currentRevision) \in Errors
                  THEN [entries EXCEPT ![t] = None]
                  ELSE entries
    /\ UNCHANGED <<minted, now>>

\* Only an expired entry is dropped; a rejected one stays.
Resolve(t, actor, v, currentRevision) ==
    /\ entries' = IF Resolution(t, actor, v, currentRevision) = "expired"
                  THEN [entries EXCEPT ![t] = None]
                  ELSE entries
    /\ UNCHANGED <<minted, now>>

-----------------------------------------------------------------------------
(* Removal. *)

Remove(t) ==
    /\ entries' = [entries EXCEPT ![t] = None]
    /\ UNCHANGED <<minted, now>>

\* Mutated forms of Retained: an entry survives the instant it expires at, or
\* it is kept from then on.
RetainedAtExpiry(record, clock) ==
    record.expires = None \/ record.expires >= clock

RetainedFromExpiry(record, clock) ==
    record.expires = None \/ record.expires <= clock

\* The predicate prune_expired hands to HashMap::retain.
Retained(record, clock) ==
    record.expires = None \/ record.expires > clock

PruneExpired(clock) ==
    /\ entries' = [t \in Tokens |->
                      IF entries[t] = None THEN None
                      ELSE IF Retained(entries[t], clock) THEN entries[t]
                      ELSE None]
    /\ UNCHANGED <<minted, now>>

\* Instant is monotonic.
Tick ==
    /\ now < MaxTime
    /\ now' = now + 1
    /\ UNCHANGED <<entries, minted>>

Next ==
    \/ \E t \in Tokens, v \in Views, r \in Revision, actor \in ActorPolicy,
          stale \in StalePolicy, clock \in 0 .. now, ttl \in TTLs :
          Register(t, v, r, actor, stale, clock, ttl)
    \/ \E t \in Tokens, actor \in Users, v \in Views, r \in Revision :
          Resolve(t, actor, v, r)
    \/ \E t \in Tokens : Remove(t)
    \/ \E clock \in 0 .. now : PruneExpired(clock)
    \/ Tick

Spec == Init /\ [][Next]_vars

-----------------------------------------------------------------------------
(* Properties. *)

\* What a live token says is fixed when it is rendered: the registry holds
\* either the record a token was minted with or nothing, and never lets a
\* token that has gone come back (action.rs: register_with_ttl's collision
\* loop, resolve, remove, prune_expired).
BindingsAreFinal ==
    [][\A t \in Tokens :
          minted[t] # None => /\ minted'[t] = minted[t]
                              /\ entries'[t] \in {entries[t], None}]_vars

\* prune_expired (which keeps expires_at > now) and resolve (which refuses
\* now >= expires_at) draw the boundary at the same instant: a prune drops
\* exactly what a resolve at its clock reading would have called expired.
PruneAgreesWithResolve ==
    [][\A clock \in 0 .. now :
          PruneExpired(clock) =>
             \A t \in Tokens :
                entries[t] # None =>
                   (entries'[t] = None <=> Expired(entries[t], clock))]_vars
=============================================================================
