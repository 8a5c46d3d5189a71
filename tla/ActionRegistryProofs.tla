------------------------ MODULE ActionRegistryProofs ------------------------
(***************************************************************************)
(* Theorems about the registry of callback capabilities, for any sets of   *)
(* tokens, users and views, any lifetimes and any clock readings.  The     *)
(* type invariant is inductive, and enough for both action properties.     *)
(***************************************************************************)
EXTENDS ActionRegistry, TLAPS

\* A record built from a clock reading is an ActionRecord, also when the reading
\* is older than the moment it is stored at (action.rs: register_with_ttl).
LEMMA RecordType ==
  ASSUME now \in Nat,
         NEW v \in Views, NEW r \in Revision, NEW actor \in ActorPolicy,
         NEW stale \in StalePolicy, NEW clock \in 0 .. now, NEW ttl \in TTLs
  PROVE  NewRecord(v, r, actor, stale, clock, ttl) \in ActionRecord
<1>1. ExpiresAt(clock, ttl) \in Expiry
  BY TTLAssumption DEF ExpiresAt, Expiry
<1> QED
  BY <1>1 DEF NewRecord, ActionRecord

\* No operation stores anything but a record or its absence.
LEMMA TypeStep == TypeOK /\ [Next]_vars => TypeOK'
<1> SUFFICES ASSUME TypeOK, [Next]_vars PROVE TypeOK'
  OBVIOUS
<1> USE DEF TypeOK
<1>1. ASSUME NEW t \in Tokens, NEW v \in Views, NEW r \in Revision,
             NEW actor \in ActorPolicy, NEW stale \in StalePolicy,
             NEW clock \in 0 .. now, NEW ttl \in TTLs,
             Register(t, v, r, actor, stale, clock, ttl)
      PROVE  TypeOK'
  <2>1. NewRecord(v, r, actor, stale, clock, ttl) \in ActionRecord
    BY RecordType
  <2> QED
    BY <1>1, <2>1 DEF Register
<1>2. ASSUME NEW t \in Tokens, NEW actor \in Users, NEW v \in Views,
             NEW r \in Revision, Resolve(t, actor, v, r)
      PROVE  TypeOK'
  BY <1>2 DEF Resolve
<1>3. ASSUME NEW t \in Tokens, Remove(t) PROVE TypeOK'
  BY <1>3 DEF Remove
<1>4. ASSUME NEW clock \in 0 .. now, PruneExpired(clock) PROVE TypeOK'
  BY <1>4 DEF PruneExpired
<1>5. CASE Tick
  BY <1>5 DEF Tick
<1>6. CASE UNCHANGED vars
  BY <1>6 DEF vars
<1> QED
  BY <1>1, <1>2, <1>3, <1>4, <1>5, <1>6 DEF Next

\* The registry keeps its types.
THEOREM RegistryTypeCorrect == Spec => []TypeOK
<1>1. Init => TypeOK
  BY DEF Init, TypeOK
<1> QED
  BY <1>1, TypeStep, PTL DEF Spec

-----------------------------------------------------------------------------

\* One step leaves the entry of a token that was minted before alone, or drops
\* it: only a token that never was can be registered.
LEMMA BindingStep ==
  ASSUME TypeOK, [Next]_vars, NEW t \in Tokens, minted[t] # None
  PROVE  /\ minted'[t] = minted[t]
         /\ entries'[t] \in {entries[t], None}
<1> USE DEF TypeOK
<1>1. ASSUME NEW u \in Tokens, NEW v \in Views, NEW r \in Revision,
             NEW actor \in ActorPolicy, NEW stale \in StalePolicy,
             NEW clock \in 0 .. now, NEW ttl \in TTLs,
             Register(u, v, r, actor, stale, clock, ttl)
      PROVE  minted'[t] = minted[t] /\ entries'[t] = entries[t]
  BY <1>1 DEF Register, Generated
<1>2. ASSUME NEW u \in Tokens, NEW actor \in Users, NEW v \in Views,
             NEW r \in Revision, Resolve(u, actor, v, r)
      PROVE  minted' = minted /\ entries'[t] \in {entries[t], None}
  BY <1>2 DEF Resolve
<1>3. ASSUME NEW u \in Tokens, Remove(u)
      PROVE  minted' = minted /\ entries'[t] \in {entries[t], None}
  BY <1>3 DEF Remove
<1>4. ASSUME NEW clock \in 0 .. now, PruneExpired(clock)
      PROVE  minted' = minted /\ entries'[t] \in {entries[t], None}
  BY <1>4 DEF PruneExpired
<1>5. CASE Tick
  BY <1>5 DEF Tick
<1>6. CASE UNCHANGED vars
  BY <1>6 DEF vars
<1> QED
  BY <1>1, <1>2, <1>3, <1>4, <1>5, <1>6 DEF Next

\* What a token was rendered with is what it stands for until it is gone, and it
\* never comes back.
THEOREM BindingsFinal == Spec => BindingsAreFinal
<1>1. TypeOK /\ [Next]_vars =>
         [\A t \in Tokens :
             minted[t] # None => /\ minted'[t] = minted[t]
                                 /\ entries'[t] \in {entries[t], None}]_vars
  BY BindingStep
<1> QED
  BY <1>1, RegistryTypeCorrect, PTL DEF Spec, BindingsAreFinal

-----------------------------------------------------------------------------

\* The two tests of an expiry, keep-if-greater and refuse-if-not-less, are each
\* other's negation, for a token with an expiry and for one without.
LEMMA OneBoundary ==
  ASSUME NEW record \in ActionRecord, NEW clock \in Nat
  PROVE  Retained(record, clock) <=> ~Expired(record, clock)
BY DEF Retained, Expired, ActionRecord, Expiry

\* A prune drops exactly the entries a lookup at its clock reading would refuse.
THEOREM PruneAgrees == Spec => PruneAgreesWithResolve
<1>1. ASSUME TypeOK, NEW clock \in 0 .. now, PruneExpired(clock),
             NEW t \in Tokens, entries[t] # None
      PROVE  entries'[t] = None <=> Expired(entries[t], clock)
  <2>1. entries[t] \in ActionRecord /\ clock \in Nat
    BY <1>1 DEF TypeOK
  <2>2. entries'[t] = IF Retained(entries[t], clock) THEN entries[t] ELSE None
    BY <1>1 DEF PruneExpired
  <2> QED
    BY <1>1, <2>1, <2>2, OneBoundary
<1>2. TypeOK /\ [Next]_vars =>
         [\A clock \in 0 .. now :
             PruneExpired(clock) =>
                \A t \in Tokens :
                   entries[t] # None =>
                      (entries'[t] = None <=> Expired(entries[t], clock))]_vars
  BY <1>1
<1> QED
  BY <1>2, RegistryTypeCorrect, PTL DEF Spec, PruneAgreesWithResolve
=============================================================================
