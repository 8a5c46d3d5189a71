------------------------- MODULE CallbackFlowProofs -------------------------
(***************************************************************************)
(* Theorems about the callback path, for any set of tasks, tokens, users   *)
(* and views, any policies, and any number of revisions.                   *)
(*                                                                         *)
(* IInv is the inductive invariant.  The heart of it is SnapshotsArePast:  *)
(* what a task holds is a past of the view's journal.  Together with       *)
(* RevisionCountsCommits it makes "the revisions are equal", which is all  *)
(* compare_and_set tests, mean "the states are equal" (lemma               *)
(* CommitEffect).  NobodyHoldsOpening is what the race for a revision      *)
(* needs in addition (OneWinnerPerRevision).                               *)
(***************************************************************************)
EXTENDS CallbackFlow, SequenceTheorems, TLAPS

-----------------------------------------------------------------------------
(* The compare-and-set of a task. *)

\* A task's compare_and_set either changes nothing or appends its entry to
\* the state everybody else sees (main.rs: handle_callback, store.rs:
\* compare_and_set).
LEMMA CommitEffect ==
    ASSUME IInv, NEW h \in Tasks, pc[h] \in {"commit", "engine"},
           NEW entry \in Entry, CommitEntry(h, entry)
    PROVE  \/ /\ Committed(h)
              /\ req[h].view \in Views
              /\ records[req[h].view] # None
              /\ snap[h].revision = Len(journal[req[h].view])
              /\ Len(journal[req[h].view]) < MaxRevision
              /\ journal' = [journal EXCEPT ![req[h].view] = Append(@, entry)]
              /\ records' = [records EXCEPT ![req[h].view] =
                                [revision |-> Len(journal[req[h].view]) + 1,
                                 state |-> Append(journal[req[h].view], entry)]]
              /\ allocated' = allocated
           \/ /\ ~Committed(h)
              /\ UNCHANGED <<records, allocated, journal>>
<1> DEFINE v == req[h].view
<1>1. v \in Views /\ snap[h].state \in Seq(Entry) /\ journal[v] \in Seq(Entry)
  BY DEF IInv, TypeOK, Store!TypeOK, Store!ViewRecord, RequestsAreWellFormed,
         Holding
<1>2. CASE ~Committed(h)
  BY <1>2 DEF CommitEntry, Committed, Store!CompareAndSet
<1>3. CASE Committed(h)
  <2>1. /\ records[v] # None
        /\ records[v].revision = snap[h].revision
        /\ Store!CheckedNext(records[v].revision) # None
    BY <1>3 DEF Committed, Store!CasOutcome
  <2>2. snap[h].revision = Len(journal[v])
    BY <2>1, <1>1 DEF IInv, RevisionCountsCommits
  <2>3. snap[h].state = journal[v]
    <3>1. /\ Len(snap[h].state) = Len(journal[v])
          /\ \A i \in 1 .. Len(snap[h].state) : snap[h].state[i] = journal[v][i]
      BY <2>2 DEF IInv, SnapshotsArePast, Holding
    <3> QED
      BY <3>1, <1>1, SeqEqual
  <2>4. Len(journal[v]) \in Revision
    BY <2>2 DEF IInv, TypeOK, Store!ViewRecord, Store!Revision, Revision
  <2>5. /\ Store!CheckedNext(records[v].revision) = Len(journal[v]) + 1
        /\ Len(journal[v]) < MaxRevision
    BY <2>1, <2>2, <2>4, RevisionAssumption DEF Store!CheckedNext, Revision
  <2> QED
    BY <1>1, <1>3, <2>1, <2>2, <2>3, <2>5
    DEF CommitEntry, Committed, Store!CompareAndSet
<1> QED
  BY <1>2, <1>3

-----------------------------------------------------------------------------
(* The invariant holds initially. *)

\* Nothing is registered, stored or running.
LEMMA InvInit == Init => IInv
<1> SUFFICES ASSUME Init PROVE IInv
  OBVIOUS
<1> USE DEF Init, Registry!Init, Store!Init
<1>1. TypeOK
  <2>1. Registry!TypeOK /\ Store!TypeOK
    BY DEF Registry!TypeOK, Store!TypeOK
  <2>2. journal \in [Views -> Seq(Entry)]
    OBVIOUS
  <2>3. NoRequest \in Request
    BY DEF NoRequest, Request
  <2>4. NoSnapshot \in Store!ViewRecord
    BY RevisionAssumption
    DEF NoSnapshot, Store!ViewRecord, Initial, Store!Revision
  <2> QED
    BY <2>1, <2>2, <2>3, <2>4 DEF TypeOK, Places
<1>2. EntriesAreMinted /\ UnallocatedIsEmpty /\ NoLostUpdate
  BY DEF EntriesAreMinted, UnallocatedIsEmpty, NoLostUpdate
<1>3. /\ OpeningIsExclusive /\ IdleIsEmpty
      /\ RequestsAreWellFormed /\ SnapshotsArePast
  BY DEF OpeningIsExclusive, IdleIsEmpty, RequestsAreWellFormed,
         SnapshotsArePast, Holding
<1>4. ResolvedIsCovered /\ RevisionCountsCommits /\ CommitsAreCovered
  BY DEF ResolvedIsCovered, RevisionCountsCommits, CommitsAreCovered
<1> QED
  BY <1>1, <1>2, <1>3, <1>4 DEF IInv

-----------------------------------------------------------------------------
(* Each step preserves the types. *)

\* No handler, render or library call stores a value of another type; the
\* revision cannot be counted past its end (ids.rs: checked_next).
LEMMA TypeStep == TypeOK /\ IInv /\ [Next]_vars => TypeOK'
<1> SUFFICES ASSUME TypeOK, IInv, [Next]_vars PROVE TypeOK'
  OBVIOUS
<1> USE DEF TypeOK, Registry!TypeOK, Store!TypeOK
<1>1. /\ NoRequest \in Request
      /\ NoSnapshot \in Store!ViewRecord
      /\ \A v \in Views : [NoRequest EXCEPT !.view = v] \in Request
  BY RevisionAssumption
  DEF NoRequest, Request, NoSnapshot, Store!ViewRecord, Initial, Store!Revision
<1>2. ASSUME NEW h \in Tasks, Finish(h)
      PROVE  /\ pc' \in [Tasks -> Places]
             /\ req' \in [Tasks -> Request]
             /\ snap' \in [Tasks -> Store!ViewRecord]
  BY <1>1, <1>2 DEF Finish, Places
<1>3. ASSUME NEW h \in Tasks, NEW v \in Views, OpenView(h, v) PROVE TypeOK'
  BY <1>1, <1>3 DEF OpenView, Store!Fresh, Goto, registryVars, Places
<1>4. ASSUME NEW h \in Tasks, NEW t \in Tokens, NEW v \in Views, NEW u \in Users,
             Receive(h, t, v, u)
      PROVE  TypeOK'
  <2>1. [token |-> t, actor |-> u, view |-> v] \in Request
    BY DEF Request
  <2> QED
    BY <1>4, <2>1 DEF Receive, Goto, registryVars, storeVars, Places
<1>5. ASSUME NEW h \in Tasks, NEW t \in Tokens, NEW actor \in Actors,
             NEW stale \in Policies, NEW clock \in 0 .. now, NEW ttl \in TTLs,
             RenderButton(h, t, actor, stale, clock, ttl)
      PROVE  TypeOK'
  <2>1. req[h].view \in Views
    BY <1>5 DEF RenderButton, IInv, OpeningIsExclusive, RequestsAreWellFormed,
                Holding
  <2>2. Registry!NewRecord(req[h].view, snap[h].revision, actor, stale, clock, ttl)
        \in Registry!ActionRecord
    <3>1. Registry!ExpiresAt(clock, ttl) \in Registry!Expiry
      BY TTLAssumption DEF Registry!ExpiresAt, Registry!Expiry
    <3>2. snap[h].revision \in Registry!Revision
      BY DEF Store!ViewRecord, Store!Revision, Registry!Revision
    <3>3. actor \in Registry!ActorPolicy /\ stale \in Registry!StalePolicy
      BY PoliciesAssumption
      DEF Registry!ActorPolicy, Registry!StalePolicy, ActorPolicy, StalePolicy
    <3> QED
      BY <2>1, <3>1, <3>2, <3>3 DEF Registry!NewRecord, Registry!ActionRecord
  <2> QED
    BY <1>5, <2>2 DEF RenderButton, Registry!Register, storeVars
<1>6. ASSUME NEW h \in Tasks, Step(h) PROVE TypeOK'
  <2>1. CASE InsertView(h)
    BY <1>2, <2>1 DEF InsertView, Store!Insert, registryVars, IInv,
                      OpeningIsExclusive
  <2>2. CASE OpenFails(h)
    BY <1>2, <2>2 DEF OpenFails, registryVars, storeVars
  <2>3. CASE Load(h)
    <3>1. req[h].view \in Views
      BY <2>3 DEF Load, IInv, RequestsAreWellFormed
    <3> QED
      BY <1>2, <2>3, <3>1
      DEF Load, Store!Loaded, Goto, registryVars, storeVars, Places
  <2>4. CASE Resolve(h)
    BY <1>2, <2>4 DEF Resolve, Registry!Resolve, Goto, storeVars, Places
  <2>5. ASSUME NEW entry \in Entry, pc[h] \in {"commit", "engine"},
               CommitEntry(h, entry)
        PROVE  /\ Store!TypeOK'
               /\ journal' \in [Views -> Seq(Entry)]
               /\ req[h].view \in Views
               /\ Committed(h) => records'[req[h].view] \in Store!ViewRecord
    <3>1. CASE UNCHANGED <<records, allocated, journal>> /\ ~Committed(h)
      BY <2>5, <3>1 DEF IInv, RequestsAreWellFormed, Holding
    <3>2. CASE ~(UNCHANGED <<records, allocated, journal>> /\ ~Committed(h))
      <4> DEFINE v == req[h].view
                 log == Append(journal[v], entry)
                 new == [revision |-> Len(journal[v]) + 1, state |-> log]
      <4>1. /\ v \in Views
            /\ Len(journal[v]) < MaxRevision
            /\ journal' = [journal EXCEPT ![v] = log]
            /\ records' = [records EXCEPT ![v] = new]
            /\ allocated' = allocated
        BY <2>5, <3>2, CommitEffect
      <4>2. log \in Seq(Entry) /\ Len(journal[v]) \in Nat
        BY <4>1
      <4>3. new \in Store!ViewRecord
        BY <4>1, <4>2, RevisionAssumption DEF Store!ViewRecord, Store!Revision
      <4> QED
        BY <4>1, <4>2, <4>3
    <3> QED
      BY <3>1, <3>2
  <2>6. CASE Commit(h)
    <3>1. [token |-> req[h].token, actor |-> req[h].actor] \in Entry
      BY DEF Request, Entry
    <3>2. /\ Store!TypeOK'
          /\ journal' \in [Views -> Seq(Entry)]
          /\ req[h].view \in Views
          /\ Committed(h) => records'[req[h].view] \in Store!ViewRecord
      BY <2>5, <2>6, <3>1 DEF Commit
    <3> QED
      BY <1>1, <1>2, <2>6, <3>2 DEF Commit, Goto, registryVars, Places
  <2>7. CASE EngineCommit(h)
    <3>1. EngineEntry \in Entry
      BY DEF EngineEntry, Entry
    <3>2. /\ Store!TypeOK'
          /\ journal' \in [Views -> Seq(Entry)]
          /\ Committed(h) => records'[req[h].view] \in Store!ViewRecord
      BY <2>5, <2>7, <3>1 DEF EngineCommit
    <3> QED
      BY <2>7, <3>2 DEF EngineCommit, Goto, registryVars, Places
  <2>8. CASE Ack(h) \/ AckFails(h) \/ EngineFails(h) \/ Projected(h)
    BY <1>2, <2>8 DEF Ack, AckFails, EngineFails, Projected, Goto, registryVars,
                      storeVars, Places
  <2> QED
    BY <1>6, <2>1, <2>2, <2>3, <2>4, <2>6, <2>7, <2>8 DEF Step
<1>7. CASE Application
  <2>1. ASSUME NEW t \in Tokens, RemoveToken(t) PROVE TypeOK'
    BY <2>1 DEF RemoveToken, Registry!Remove, storeVars
  <2>2. ASSUME NEW clock \in 0 .. now, PruneExpired(clock) PROVE TypeOK'
    BY <2>2 DEF PruneExpired, Registry!PruneExpired, storeVars
  <2>3. ASSUME NEW v \in Views, RemoveView(v) PROVE TypeOK'
    BY <2>3 DEF RemoveView, Store!Remove, registryVars
  <2>4. CASE Tick
    BY <2>4 DEF Tick, Registry!Tick, storeVars
  <2> QED
    BY <1>7, <2>1, <2>2, <2>3, <2>4 DEF Application
<1>8. CASE UNCHANGED vars
  BY <1>8 DEF vars
<1> QED
  BY <1>3, <1>4, <1>5, <1>6, <1>7, <1>8 DEF Next, Begin, Render

-----------------------------------------------------------------------------
(* Each step preserves the rest of the invariant. *)

\* A task that ends takes nothing with it.
LEMMA InvFinish ==
    ASSUME IInv, TypeOK', NEW h \in Tasks, Finish(h),
           UNCHANGED <<minted, records, allocated, journal>>,
           EntriesAreMinted'
    PROVE  IInv'
<1>1. (UnallocatedIsEmpty /\ NoLostUpdate /\ RevisionCountsCommits)'
  BY DEF IInv, UnallocatedIsEmpty, NoLostUpdate, RevisionCountsCommits
<1>2. CommitsAreCovered'
  BY DEF IInv, CommitsAreCovered
<1>3. \A g \in Tasks \ {h} : /\ pc'[g] = pc[g]
                             /\ req'[g] = req[g]
                             /\ snap'[g] = snap[g]
  BY DEF Finish, IInv, TypeOK
<1>4. pc'[h] = "idle" /\ snap'[h] = NoSnapshot
  BY DEF Finish, IInv, TypeOK
<1>5. OpeningIsExclusive'
  BY <1>3, <1>4 DEF IInv, OpeningIsExclusive
<1>6. RequestsAreWellFormed'
  BY <1>3, <1>4 DEF IInv, RequestsAreWellFormed, Holding
<1>7. SnapshotsArePast'
  BY <1>3, <1>4 DEF IInv, SnapshotsArePast, Holding
<1>8. ResolvedIsCovered' /\ IdleIsEmpty'
  BY <1>3, <1>4 DEF IInv, ResolvedIsCovered, IdleIsEmpty
<1> QED
  BY <1>1, <1>2, <1>5, <1>6, <1>7, <1>8 DEF IInv

\* A commit by a user or by the engine: the view's own invariants, and what
\* the other tasks hold, survive the appended entry.
LEMMA InvCommitEntry ==
    ASSUME IInv, TypeOK', NEW h \in Tasks, pc[h] \in {"commit", "engine"},
           NEW entry \in Entry, CommitEntry(h, entry), Committed(h),
           UNCHANGED <<entries, minted>>,
           pc' = [pc EXCEPT ![h] = pc'[h]],
           pc'[h] \in {"ack", "render"},
           snap' = [snap EXCEPT ![h] = records'[req[h].view]],
           req' = [req EXCEPT ![h] = req'[h]], req'[h].view = req[h].view,
           entry # EngineEntry =>
              /\ pc[h] = "commit"
              /\ entry.token = req[h].token
              /\ entry.actor = req[h].actor
    PROVE  IInv'
<1> DEFINE v == req[h].view
           log == Append(journal[v], entry)
<1>1. /\ v \in Views
      /\ records[v] # None
      /\ snap[h].revision = Len(journal[v])
      /\ journal' = [journal EXCEPT ![v] = log]
      /\ records' = [records EXCEPT ![v] =
                        [revision |-> Len(journal[v]) + 1, state |-> log]]
      /\ allocated' = allocated
  BY CommitEffect
<1>2. journal[v] \in Seq(Entry) /\ Len(journal[v]) \in Nat
  BY <1>1 DEF IInv, TypeOK
<1>3. /\ log \in Seq(Entry)
      /\ Len(log) = Len(journal[v]) + 1
      /\ \A i \in 1 .. Len(journal[v]) : log[i] = journal[v][i]
      /\ log[Len(journal[v]) + 1] = entry
  BY <1>2, AppendProperties
<1>4. v \in allocated
  BY DEF IInv, RequestsAreWellFormed, Holding
<1>5. \A g \in Tasks \ {h} : /\ pc'[g] = pc[g]
                             /\ req'[g] = req[g]
                             /\ snap'[g] = snap[g]
  BY DEF IInv, TypeOK
<1>6. /\ journal'[v] = log
      /\ \A w \in Views \ {v} : journal'[w] = journal[w]
      /\ records'[v] = [revision |-> Len(log), state |-> log]
      /\ \A w \in Views \ {v} : records'[w] = records[w]
  BY <1>1, <1>3 DEF IInv, TypeOK, Store!TypeOK
<1>7. EntriesAreMinted'
  BY DEF IInv, EntriesAreMinted
<1>8. UnallocatedIsEmpty'
  BY <1>1, <1>4, <1>6 DEF IInv, UnallocatedIsEmpty
<1>9. (NoLostUpdate /\ RevisionCountsCommits)'
  <2>1. /\ records'[v].state = journal'[v]
        /\ records'[v].revision = Len(journal'[v])
    BY <1>6
  <2>2. ASSUME NEW w \in Views \ {v}, records'[w] # None
        PROVE  /\ records'[w].state = journal'[w]
               /\ records'[w].revision = Len(journal'[w])
    BY <1>6, <2>2 DEF IInv, NoLostUpdate, RevisionCountsCommits
  <2> QED
    BY <2>1, <2>2 DEF NoLostUpdate, RevisionCountsCommits
<1>10. OpeningIsExclusive'
  <2>1. \A g \in Tasks : pc'[g] = "open" => g # h /\ pc[g] = "open"
    BY <1>5
  <2>2. \A g \in Tasks : pc[g] = "open" => req[g].view \in Views /\ req[g].view # v
    BY <1>1 DEF IInv, OpeningIsExclusive, TypeOK, Store!TypeOK
  <2> SUFFICES ASSUME NEW g \in Tasks, pc'[g] = "open"
               PROVE  /\ req'[g].view \in allocated'
                      /\ records'[req'[g].view] = None
                      /\ journal'[req'[g].view] = << >>
                      /\ snap'[g] = NoSnapshot
                      /\ \A f \in Tasks \ {g} :
                            pc'[f] = "open" => req'[f].view # req'[g].view
    BY DEF OpeningIsExclusive
  <2>3. /\ g # h /\ pc[g] = "open" /\ req'[g] = req[g] /\ snap'[g] = snap[g]
        /\ req[g].view \in Views \ {v}
    BY <2>1, <2>2, <1>5
  <2>4. /\ records'[req[g].view] = records[req[g].view]
        /\ journal'[req[g].view] = journal[req[g].view]
    BY <2>3, <1>6
  <2>5. /\ req[g].view \in allocated
        /\ records[req[g].view] = None
        /\ journal[req[g].view] = << >>
        /\ snap[g] = NoSnapshot
        /\ \A f \in Tasks \ {g} : pc[f] = "open" => req[f].view # req[g].view
    BY <2>3 DEF IInv, OpeningIsExclusive
  <2>6. \A f \in Tasks \ {g} : pc'[f] = "open" => req'[f].view # req[g].view
    BY <2>1, <2>5, <1>5
  <2> QED
    BY <1>1, <2>3, <2>4, <2>5, <2>6
<1>11. RequestsAreWellFormed'
  BY <1>1, <1>4, <1>5 DEF IInv, RequestsAreWellFormed, Holding
<1>12. SnapshotsArePast'
  <2>1. snap'[h] = [revision |-> Len(log), state |-> log]
    BY <1>6 DEF IInv, TypeOK
  <2>2. ASSUME NEW g \in Tasks \ {h}, pc'[g] \in Holding
        PROVE  /\ snap'[g].revision = Len(snap'[g].state)
               /\ snap'[g].revision <= Len(journal'[req'[g].view])
               /\ \A i \in 1 .. snap'[g].revision :
                     snap'[g].state[i] = journal'[req'[g].view][i]
    <3> DEFINE w == req[g].view
    <3>1. /\ w \in Views
          /\ snap[g].revision \in Nat
          /\ snap[g].revision = Len(snap[g].state)
          /\ snap[g].revision <= Len(journal[w])
          /\ \A i \in 1 .. snap[g].revision : snap[g].state[i] = journal[w][i]
      BY <1>5, <2>2
      DEF IInv, SnapshotsArePast, RequestsAreWellFormed, TypeOK, Store!TypeOK,
          Store!ViewRecord, Store!Revision
    <3>2. CASE w = v
      <4>1. /\ snap'[g] = snap[g]
            /\ req'[g].view = v
            /\ journal'[v] = log
        BY <1>5, <1>6, <3>2
      <4>2. snap[g].revision <= Len(log)
        BY <1>2, <1>3, <3>1, <3>2
      <4>3. ASSUME NEW i \in 1 .. snap[g].revision
            PROVE  snap[g].state[i] = log[i]
        BY <1>2, <1>3, <3>1, <3>2
      <4>4. snap[g].revision = Len(snap[g].state)
        BY <3>1
      <4> HIDE DEF v, log
      <4> QED
        BY <4>1, <4>2, <4>3, <4>4
    <3>3. CASE w # v
      <4>1. /\ snap'[g] = snap[g]
            /\ req'[g].view = w
            /\ journal'[w] = journal[w]
        BY <1>5, <1>6, <3>1, <3>3
      <4> HIDE DEF w
      <4> QED
        BY <3>1, <4>1
    <3> QED
      BY <3>2, <3>3
  <2>3. /\ snap'[h].revision = Len(snap'[h].state)
        /\ snap'[h].revision <= Len(journal'[req'[h].view])
        /\ \A i \in 1 .. snap'[h].revision :
              snap'[h].state[i] = journal'[req'[h].view][i]
    <3>1. journal'[req'[h].view] = log /\ Len(log) \in Nat
      BY <1>2, <1>3, <1>6
    <3>2. snap'[h].revision = Len(log) /\ snap'[h].state = log
      BY <2>1
    <3> HIDE DEF log
    <3> QED
      BY <3>1, <3>2
  <2>4. \A g \in Tasks : pc'[g] \in Holding =>
           /\ snap'[g].revision = Len(snap'[g].state)
           /\ snap'[g].revision <= Len(journal'[req'[g].view])
           /\ \A i \in 1 .. snap'[g].revision :
                 snap'[g].state[i] = journal'[req'[g].view][i]
    <3> SUFFICES ASSUME NEW g \in Tasks, pc'[g] \in Holding
                 PROVE  /\ snap'[g].revision = Len(snap'[g].state)
                        /\ snap'[g].revision <= Len(journal'[req'[g].view])
                        /\ \A i \in 1 .. snap'[g].revision :
                              snap'[g].state[i] = journal'[req'[g].view][i]
      OBVIOUS
    <3>1. CASE g = h
      BY <2>3, <3>1
    <3>2. CASE g # h
      BY <2>2, <3>2
    <3> QED
      BY <3>1, <3>2
  <2> QED
    BY <2>4 DEF SnapshotsArePast
<1>13. ResolvedIsCovered' /\ IdleIsEmpty'
  BY <1>5 DEF IInv, ResolvedIsCovered, IdleIsEmpty
<1>14. CommitsAreCovered'
  <2> SUFFICES ASSUME NEW w \in Views, NEW i \in 1 .. Len(journal'[w]),
                      journal'[w][i] # EngineEntry
               PROVE  /\ journal'[w][i].token # None
                      /\ minted[journal'[w][i].token] # None
                      /\ minted[journal'[w][i].token].view = w
                      /\ Permits(minted[journal'[w][i].token].actor,
                                 journal'[w][i].actor)
                      /\ Accepts(minted[journal'[w][i].token].stale,
                                 minted[journal'[w][i].token].revision, i - 1)
    BY DEF CommitsAreCovered
  <2>1. CASE w = v /\ i = Len(journal[v]) + 1
    <3>1. journal'[w][i] = entry /\ i - 1 = snap[h].revision
      <4>1. journal'[v] = log /\ log[Len(journal[v]) + 1] = entry
        BY <1>3, <1>6
      <4>2. (Len(journal[v]) + 1) - 1 = snap[h].revision
        BY <1>1, <1>2
      <4> HIDE DEF v, log
      <4> QED
        BY <2>1, <4>1, <4>2
    <3>2. req[h].token \in Tokens /\ pc[h] = "commit"
      BY <3>1 DEF IInv, RequestsAreWellFormed
    <3> QED
      BY <2>1, <3>1, <3>2, NoneAssumption DEF IInv, ResolvedIsCovered
  <2>2. CASE ~(w = v /\ i = Len(journal[v]) + 1)
    <3>1. CASE w = v
      <4>1. i \in 1 .. Len(log) /\ i # Len(log) /\ journal'[w][i] = log[i]
        BY <1>2, <1>3, <1>6, <2>2, <3>1
      <4>2. i \in 1 .. Len(journal[w]) /\ journal'[w][i] = journal[w][i]
        BY <1>2, <1>3, <3>1, <4>1
      <4> QED
        BY <4>2 DEF IInv, CommitsAreCovered
    <3>2. CASE w # v
      <4>1. i \in 1 .. Len(journal[w]) /\ journal'[w][i] = journal[w][i]
        BY <1>6, <3>2
      <4> QED
        BY <4>1 DEF IInv, CommitsAreCovered
    <3> QED
      BY <3>1, <3>2
  <2> QED
    BY <2>1, <2>2
<1> QED
  BY <1>7, <1>8, <1>9, <1>10, <1>11, <1>12, <1>13, <1>14 DEF IInv

\* A task that only moves on, with the record and the request it has.
LEMMA InvMove ==
    ASSUME IInv, TypeOK', NEW h \in Tasks, NEW place \in Holding \ {"commit", "resolve"},
           pc[h] \in Holding, Goto(h, place),
           UNCHANGED <<minted, records, allocated, journal, req, snap>>,
           EntriesAreMinted'
    PROVE  IInv'
<1>1. (UnallocatedIsEmpty /\ NoLostUpdate /\ RevisionCountsCommits)'
  BY DEF IInv, UnallocatedIsEmpty, NoLostUpdate, RevisionCountsCommits
<1>2. CommitsAreCovered'
  BY DEF IInv, CommitsAreCovered
<1>3. pc'[h] = place /\ \A g \in Tasks \ {h} : pc'[g] = pc[g]
  BY DEF Goto, IInv, TypeOK
<1>4. OpeningIsExclusive'
  BY <1>3 DEF IInv, OpeningIsExclusive, Holding
<1>5. RequestsAreWellFormed'
  BY <1>3 DEF IInv, RequestsAreWellFormed, Holding
<1>6. SnapshotsArePast'
  BY <1>3 DEF IInv, SnapshotsArePast, Holding
<1>7. ResolvedIsCovered' /\ IdleIsEmpty'
  BY <1>3 DEF IInv, ResolvedIsCovered, IdleIsEmpty, Holding
<1> QED
  BY <1>1, <1>2, <1>4, <1>5, <1>6, <1>7 DEF IInv

\* Every step of every task, and every call of the application, preserves the
\* invariant.
LEMMA InvStep == IInv /\ [Next]_vars => IInv'
<1> SUFFICES ASSUME IInv, [Next]_vars PROVE IInv'
  OBVIOUS
<1>0. TypeOK /\ TypeOK'
  BY TypeStep DEF IInv
<1>1. ASSUME NEW h \in Tasks, NEW v \in Views, OpenView(h, v) PROVE IInv'
  <2> USE <1>0, <1>1 DEF OpenView, Store!Fresh, Goto, registryVars
  <2>1. /\ v \notin allocated /\ allocated' = allocated \cup {v}
        /\ pc[h] = "idle"
        /\ pc'[h] = "open" /\ req'[h].view = v
        /\ \A g \in Tasks \ {h} : pc'[g] = pc[g] /\ req'[g] = req[g]
        /\ UNCHANGED <<entries, minted, records, journal, snap>>
    BY DEF TypeOK, NoRequest
  <2>2. records[v] = None /\ journal[v] = << >>
    BY <2>1 DEF IInv, UnallocatedIsEmpty
  <2>3. snap[h] = NoSnapshot
    BY <2>1 DEF IInv, IdleIsEmpty
  <2>4. (/\ EntriesAreMinted /\ UnallocatedIsEmpty
         /\ NoLostUpdate /\ RevisionCountsCommits)'
    BY <2>1 DEF IInv, EntriesAreMinted, UnallocatedIsEmpty, NoLostUpdate,
                RevisionCountsCommits
  <2>5. CommitsAreCovered'
    BY <2>1 DEF IInv, CommitsAreCovered
  <2>6. OpeningIsExclusive'
    BY <2>1, <2>2, <2>3 DEF IInv, OpeningIsExclusive
  <2>7. RequestsAreWellFormed'
    BY <2>1 DEF IInv, RequestsAreWellFormed, Holding
  <2>8. SnapshotsArePast'
    BY <2>1 DEF IInv, SnapshotsArePast, Holding
  <2>9. ResolvedIsCovered' /\ IdleIsEmpty'
    BY <2>1 DEF IInv, ResolvedIsCovered, IdleIsEmpty
  <2> QED
    BY <2>4, <2>5, <2>6, <2>7, <2>8, <2>9 DEF IInv
<1>2. ASSUME NEW h \in Tasks, NEW t \in Tokens, NEW v \in Views, NEW u \in Users,
             Receive(h, t, v, u)
      PROVE  IInv'
  <2> USE <1>0, <1>2 DEF Receive, Goto, registryVars, storeVars
  <2>1. /\ pc[h] = "idle" /\ v \in allocated
        /\ pc'[h] = "load"
        /\ req'[h] = [token |-> t, actor |-> u, view |-> v]
        /\ \A g \in Tasks \ {h} : pc'[g] = pc[g] /\ req'[g] = req[g]
        /\ UNCHANGED <<entries, minted, records, allocated, journal, snap>>
    BY DEF TypeOK
  <2>2. (/\ EntriesAreMinted /\ UnallocatedIsEmpty
         /\ NoLostUpdate /\ RevisionCountsCommits)'
    BY <2>1 DEF IInv, EntriesAreMinted, UnallocatedIsEmpty, NoLostUpdate,
                RevisionCountsCommits
  <2>3. CommitsAreCovered'
    BY <2>1 DEF IInv, CommitsAreCovered
  <2>4. OpeningIsExclusive'
    BY <2>1 DEF IInv, OpeningIsExclusive
  <2>5. RequestsAreWellFormed'
    BY <2>1 DEF IInv, RequestsAreWellFormed, Holding
  <2>6. SnapshotsArePast'
    BY <2>1 DEF IInv, SnapshotsArePast, Holding
  <2>7. ResolvedIsCovered' /\ IdleIsEmpty'
    BY <2>1 DEF IInv, ResolvedIsCovered, IdleIsEmpty
  <2> QED
    BY <2>2, <2>3, <2>4, <2>5, <2>6, <2>7 DEF IInv
<1>3. ASSUME NEW h \in Tasks, NEW t \in Tokens, NEW actor \in Actors,
             NEW stale \in Policies, NEW clock \in 0 .. now, NEW ttl \in TTLs,
             RenderButton(h, t, actor, stale, clock, ttl)
      PROVE  IInv'
  <2>1. /\ minted[t] = None
        /\ \A x \in Tokens \ {t} : minted'[x] = minted[x] /\ entries'[x] = entries[x]
        /\ entries'[t] = minted'[t]
        /\ UNCHANGED <<records, allocated, journal, pc, req, snap>>
    BY <1>0, <1>3
    DEF RenderButton, Registry!Register, Registry!Generated, storeVars, TypeOK,
        Registry!TypeOK
  <2>2. EntriesAreMinted'
    BY <2>1 DEF IInv, EntriesAreMinted
  <2>3. (/\ UnallocatedIsEmpty /\ NoLostUpdate /\ RevisionCountsCommits
         /\ OpeningIsExclusive /\ IdleIsEmpty)'
    BY <2>1 DEF IInv, UnallocatedIsEmpty, NoLostUpdate, RevisionCountsCommits,
                OpeningIsExclusive, IdleIsEmpty
  <2>4. RequestsAreWellFormed' /\ SnapshotsArePast'
    BY <2>1 DEF IInv, RequestsAreWellFormed, SnapshotsArePast
  <2>5. ResolvedIsCovered'
    BY <2>1 DEF IInv, ResolvedIsCovered, RequestsAreWellFormed
  <2>6. CommitsAreCovered'
    <3>1. \A v \in Views : \A i \in 1 .. Len(journal[v]) :
             journal[v][i] # EngineEntry => journal[v][i].token \in Tokens \ {t}
      <4> SUFFICES ASSUME NEW v \in Views, NEW i \in 1 .. Len(journal[v]),
                          journal[v][i] # EngineEntry
                   PROVE  journal[v][i].token \in Tokens \ {t}
        OBVIOUS
      <4>1. journal[v] \in Seq(Entry)
        BY <1>0 DEF TypeOK
      <4>2. journal[v][i] \in Entry
        BY <4>1
      <4>3. journal[v][i].token \in Tokens \cup {None}
        BY <4>2 DEF Entry
      <4> QED
        BY <2>1, <4>3 DEF IInv, CommitsAreCovered
    <3>2. \A x \in Tokens \ {t} : minted'[x] = minted[x]
      BY <2>1
    <3>3. journal' = journal
      BY <2>1
    <3>4. CommitsAreCovered
      BY DEF IInv
    <3> SUFFICES ASSUME NEW v \in Views, NEW i \in 1 .. Len(journal[v]),
                        journal[v][i] # EngineEntry
                 PROVE  LET cap == minted'[journal[v][i].token]
                        IN  /\ journal[v][i].token # None
                            /\ cap # None
                            /\ cap.view = v
                            /\ Permits(cap.actor, journal[v][i].actor)
                            /\ Accepts(cap.stale, cap.revision, i - 1)
      BY <3>3 DEF CommitsAreCovered
    <3>5. minted'[journal[v][i].token] = minted[journal[v][i].token]
      BY <3>1, <3>2
    <3> QED
      BY <3>4, <3>5 DEF CommitsAreCovered
  <2> QED
    BY <1>0, <2>2, <2>3, <2>4, <2>5, <2>6 DEF IInv
<1>4. ASSUME NEW h \in Tasks, Step(h) PROVE IInv'
  <2> USE <1>0
  <2>1. CASE InsertView(h)
    <3> DEFINE v == req[h].view
    <3>1. /\ pc[h] = "open" /\ v \in Views /\ v \in allocated
          /\ journal[v] = << >> /\ snap[h] = NoSnapshot
          /\ \A g \in Tasks \ {h} : pc[g] = "open" => req[g].view # v
      BY <2>1 DEF InsertView, IInv, OpeningIsExclusive, TypeOK, Store!TypeOK
    <3>2. /\ records' = [records EXCEPT ![v] = NoSnapshot]
          /\ UNCHANGED <<entries, minted, allocated, journal>>
      BY <2>1, <3>1 DEF InsertView, Store!Insert, registryVars, IInv,
                        OpeningIsExclusive
    <3>3. records'[v] = NoSnapshot /\ \A w \in Views \ {v} : records'[w] = records[w]
      BY <3>1, <3>2 DEF TypeOK, Store!TypeOK
    <3>4. /\ pc'[h] = "idle" /\ snap'[h] = NoSnapshot
          /\ \A g \in Tasks \ {h} : /\ pc'[g] = pc[g]
                                   /\ req'[g] = req[g]
                                   /\ snap'[g] = snap[g]
      BY <2>1 DEF InsertView, Finish, TypeOK
    <3>5. EntriesAreMinted' /\ UnallocatedIsEmpty'
      BY <3>1, <3>2, <3>3 DEF IInv, EntriesAreMinted, UnallocatedIsEmpty
    <3>6. (NoLostUpdate /\ RevisionCountsCommits)'
      BY <3>1, <3>2, <3>3
      DEF IInv, NoLostUpdate, RevisionCountsCommits, NoSnapshot, Initial
    <3>7. OpeningIsExclusive'
      <4>1. \A g \in Tasks : pc'[g] = "open" =>
               g # h /\ pc[g] = "open" /\ req[g].view \in Views \ {v}
        BY <3>1, <3>4 DEF IInv, OpeningIsExclusive, TypeOK, Store!TypeOK
      <4> QED
        BY <3>2, <3>3, <3>4, <4>1 DEF IInv, OpeningIsExclusive
    <3>8. IdleIsEmpty' /\ RequestsAreWellFormed' /\ SnapshotsArePast'
      BY <3>2, <3>4 DEF IInv, IdleIsEmpty, RequestsAreWellFormed,
                        SnapshotsArePast, Holding
    <3>9. ResolvedIsCovered' /\ CommitsAreCovered'
      BY <3>2, <3>4 DEF IInv, ResolvedIsCovered, CommitsAreCovered
    <3> QED
      BY <3>5, <3>6, <3>7, <3>8, <3>9 DEF IInv
  <2>2. CASE OpenFails(h) \/ AckFails(h) \/ Projected(h)
    <3>1. EntriesAreMinted'
      BY <2>2 DEF OpenFails, AckFails, Projected, registryVars, IInv,
                  EntriesAreMinted
    <3> QED
      BY <2>2, <3>1, InvFinish
      DEF OpenFails, AckFails, Projected, registryVars, storeVars
  <2>3. CASE Load(h)
    <3> DEFINE v == req[h].view
    <3>1. UNCHANGED <<entries, minted, records, allocated, journal>>
      BY <2>3 DEF Load, registryVars, storeVars
    <3>2. EntriesAreMinted'
      BY <3>1 DEF IInv, EntriesAreMinted
    <3>3. CASE records[v] = None
      BY <2>3, <3>1, <3>2, <3>3, InvFinish DEF Load, Store!Loaded
    <3>4. CASE records[v] # None
      <4>1. /\ pc[h] = "load" /\ pc'[h] = "resolve"
            /\ snap'[h] = records[v] /\ req' = req
            /\ \A g \in Tasks \ {h} : pc'[g] = pc[g] /\ snap'[g] = snap[g]
        BY <2>3, <3>4 DEF Load, Store!Loaded, Goto, TypeOK
      <4>2. v \in Views /\ journal[v] \in Seq(Entry)
        BY <4>1 DEF IInv, RequestsAreWellFormed, TypeOK, Store!TypeOK
      <4>3. snap'[h].state = journal[v] /\ snap'[h].revision = Len(journal[v])
        BY <3>4, <4>1, <4>2 DEF IInv, NoLostUpdate, RevisionCountsCommits
      <4>4. (UnallocatedIsEmpty /\ NoLostUpdate /\ RevisionCountsCommits)'
        BY <3>1 DEF IInv, UnallocatedIsEmpty, NoLostUpdate, RevisionCountsCommits
      <4>5. CommitsAreCovered'
        BY <3>1 DEF IInv, CommitsAreCovered
      <4>6. OpeningIsExclusive' /\ IdleIsEmpty'
        BY <3>1, <4>1 DEF IInv, OpeningIsExclusive, IdleIsEmpty
      <4>7. RequestsAreWellFormed'
        BY <3>1, <4>1 DEF IInv, RequestsAreWellFormed, Holding
      <4>8. SnapshotsArePast'
        <5>1. ASSUME NEW g \in Tasks, pc'[g] \in Holding
              PROVE  /\ snap'[g].revision = Len(snap'[g].state)
                     /\ snap'[g].revision <= Len(journal[req[g].view])
                     /\ \A i \in 1 .. snap'[g].revision :
                           snap'[g].state[i] = journal[req[g].view][i]
          <6>1. CASE g = h
            <7>1. Len(journal[v]) \in Nat
              BY <4>2
            <7> QED
              BY <4>3, <6>1, <7>1
          <6>2. CASE g # h
            BY <4>1, <5>1, <6>2 DEF IInv, SnapshotsArePast
          <6> QED
            BY <6>1, <6>2
        <5> QED
          BY <3>1, <4>1, <5>1 DEF SnapshotsArePast
      <4>9. ResolvedIsCovered'
        BY <3>1, <4>1 DEF IInv, ResolvedIsCovered
      <4> QED
        BY <3>2, <4>4, <4>5, <4>6, <4>7, <4>8, <4>9 DEF IInv
    <3> QED
      BY <3>3, <3>4
  <2>4. CASE Resolve(h)
    <3> DEFINE t == req[h].token
    <3>1. UNCHANGED <<minted, records, allocated, journal>> /\ pc[h] = "resolve"
      BY <2>4 DEF Resolve, Registry!Resolve, storeVars
    <3>2. t \in Tokens /\ req[h].view \in allocated
      BY <3>1 DEF IInv, RequestsAreWellFormed, Holding
    <3>3. EntriesAreMinted'
      BY <2>4, <3>2
      DEF Resolve, Registry!Resolve, IInv, EntriesAreMinted, TypeOK, Registry!TypeOK
    <3>4. CASE Finish(h)
      BY <3>1, <3>3, <3>4, InvFinish
    <3>5. CASE ~Finish(h)
      <4>1. /\ Registry!Resolution(t, req[h].actor, req[h].view,
                                   snap[h].revision) = "ok"
            /\ pc' = [pc EXCEPT ![h] = "commit"] \/ pc' = [pc EXCEPT ![h] = "render"]
            /\ UNCHANGED <<req, snap>>
        BY <2>4, <3>5 DEF Resolve, Goto
      <4>2. CASE pc' = [pc EXCEPT ![h] = "render"]
        BY <3>1, <3>3, <4>1, <4>2, InvMove DEF Goto, Holding
      <4>3. CASE pc' = [pc EXCEPT ![h] = "commit"]
        <5>1. pc'[h] = "commit" /\ \A g \in Tasks \ {h} : pc'[g] = pc[g]
          BY <4>3 DEF TypeOK
        <5>2. /\ entries[t] # None
              /\ Permits(entries[t].actor, req[h].actor)
              /\ entries[t].view = req[h].view
              /\ Accepts(entries[t].stale, entries[t].revision, snap[h].revision)
          BY <4>1 DEF Registry!Resolution, Registry!Permits, Permits,
                      Registry!Accepts, Accepts
        <5>3. entries[t] = minted[t]
          BY <3>2, <5>2 DEF IInv, EntriesAreMinted
        <5>4. (UnallocatedIsEmpty /\ NoLostUpdate /\ RevisionCountsCommits)'
          BY <3>1 DEF IInv, UnallocatedIsEmpty, NoLostUpdate, RevisionCountsCommits
        <5>5. CommitsAreCovered'
          BY <3>1 DEF IInv, CommitsAreCovered
        <5>6. OpeningIsExclusive' /\ IdleIsEmpty'
          BY <3>1, <4>1, <5>1 DEF IInv, OpeningIsExclusive, IdleIsEmpty
        <5>7. RequestsAreWellFormed'
          BY <3>1, <4>1, <5>1 DEF IInv, RequestsAreWellFormed, Holding
        <5>8. SnapshotsArePast'
          BY <3>1, <4>1, <5>1 DEF IInv, SnapshotsArePast, Holding
        <5>9. ResolvedIsCovered'
          BY <3>1, <4>1, <5>1, <5>2, <5>3 DEF IInv, ResolvedIsCovered
        <5> QED
          BY <3>3, <5>4, <5>5, <5>6, <5>7, <5>8, <5>9 DEF IInv
      <4> QED
        BY <4>1, <4>2, <4>3
    <3> QED
      BY <3>4, <3>5
  <2>5. CASE Commit(h)
    <3> DEFINE entry == [token |-> req[h].token, actor |-> req[h].actor]
    <3>1. /\ pc[h] = "commit" /\ CommitEntry(h, entry)
          /\ UNCHANGED <<entries, minted>>
      BY <2>5 DEF Commit, registryVars
    <3>2. entry \in Entry
      BY DEF TypeOK, Request, Entry
    <3>3. CASE Committed(h)
      <4>1. /\ pc' = [pc EXCEPT ![h] = "ack"]
            /\ snap' = [snap EXCEPT ![h] = records'[req[h].view]]
            /\ req' = [req EXCEPT ![h] = [NoRequest EXCEPT !.view = req[h].view]]
        BY <2>5, <3>3 DEF Commit, Goto
      <4>2. /\ pc'[h] = "ack" /\ req'[h].view = req[h].view
            /\ pc' = [pc EXCEPT ![h] = pc'[h]]
            /\ req' = [req EXCEPT ![h] = req'[h]]
        BY <4>1 DEF TypeOK, NoRequest
      <4> QED
        BY <3>1, <3>2, <3>3, <4>1, <4>2, InvCommitEntry
    <3>4. CASE ~Committed(h)
      <4>1. UNCHANGED <<records, allocated, journal>>
        BY <3>1, <3>2, <3>4, CommitEffect
      <4>2. EntriesAreMinted'
        BY <3>1 DEF IInv, EntriesAreMinted
      <4> QED
        BY <2>5, <3>1, <3>4, <4>1, <4>2, InvFinish DEF Commit
    <3> QED
      BY <3>3, <3>4
  <2>6. CASE EngineCommit(h)
    <3>1. /\ pc[h] = "engine" /\ CommitEntry(h, EngineEntry)
          /\ pc' = [pc EXCEPT ![h] = "render"]
          /\ UNCHANGED <<entries, minted, req>>
      BY <2>6 DEF EngineCommit, registryVars, Goto
    <3>2. EngineEntry \in Entry
      BY DEF EngineEntry, Entry
    <3>3. CASE Committed(h)
      <4>1. /\ pc'[h] = "render"
            /\ pc' = [pc EXCEPT ![h] = pc'[h]]
            /\ req' = [req EXCEPT ![h] = req'[h]]
            /\ snap' = [snap EXCEPT ![h] = records'[req[h].view]]
        BY <2>6, <3>1, <3>3 DEF EngineCommit, TypeOK
      <4> QED
        BY <3>1, <3>2, <3>3, <4>1, InvCommitEntry
    <3>4. CASE ~Committed(h)
      <4>1. UNCHANGED <<records, allocated, journal, snap>>
        BY <2>6, <3>1, <3>2, <3>4, CommitEffect DEF EngineCommit
      <4>2. EntriesAreMinted'
        BY <3>1 DEF IInv, EntriesAreMinted
      <4> QED
        BY <3>1, <4>1, <4>2, InvMove DEF Goto, Holding
    <3> QED
      BY <3>3, <3>4
  <2>7. CASE Ack(h) \/ EngineFails(h)
    <3>1. EntriesAreMinted'
      BY <2>7 DEF Ack, EngineFails, registryVars, IInv, EntriesAreMinted
    <3>2. PICK place \in {"engine", "render"} : Goto(h, place)
      BY <2>7 DEF Ack, EngineFails
    <3> QED
      BY <2>7, <3>1, <3>2, InvMove
      DEF Ack, EngineFails, registryVars, storeVars, Holding
  <2> QED
    BY <1>4, <2>1, <2>2, <2>3, <2>4, <2>5, <2>6, <2>7 DEF Step
<1>5. CASE Application
  <2> USE <1>0
  <2>1. ASSUME EntriesAreMinted',
               UNCHANGED <<minted, allocated, journal, pc, req, snap>>,
               \A v \in Views : records'[v] \in {None, records[v]}
        PROVE  IInv'
    <3>1. (UnallocatedIsEmpty /\ NoLostUpdate /\ RevisionCountsCommits)'
      BY <2>1 DEF IInv, UnallocatedIsEmpty, NoLostUpdate, RevisionCountsCommits
    <3>2. OpeningIsExclusive'
      <4>1. \A h \in Tasks : pc[h] = "open" => records'[req[h].view] = None
        BY <2>1 DEF IInv, OpeningIsExclusive, TypeOK, Store!TypeOK
      <4> QED
        BY <2>1, <4>1 DEF IInv, OpeningIsExclusive
    <3>3. IdleIsEmpty' /\ RequestsAreWellFormed' /\ SnapshotsArePast'
      BY <2>1 DEF IInv, IdleIsEmpty, RequestsAreWellFormed, SnapshotsArePast
    <3>4. ResolvedIsCovered' /\ CommitsAreCovered'
      BY <2>1 DEF IInv, ResolvedIsCovered, CommitsAreCovered
    <3> QED
      BY <2>1, <3>1, <3>2, <3>3, <3>4 DEF IInv
  <2>2. ASSUME NEW t \in Tokens, RemoveToken(t) PROVE IInv'
    BY <2>1, <2>2 DEF RemoveToken, Registry!Remove, storeVars, IInv,
                      EntriesAreMinted, TypeOK, Registry!TypeOK
  <2>3. ASSUME NEW clock \in 0 .. now, PruneExpired(clock) PROVE IInv'
    BY <2>1, <2>3 DEF PruneExpired, Registry!PruneExpired, storeVars, IInv,
                      EntriesAreMinted
  <2>4. ASSUME NEW v \in Views, RemoveView(v) PROVE IInv'
    BY <2>1, <2>4 DEF RemoveView, Store!Remove, registryVars, IInv,
                      EntriesAreMinted, TypeOK, Store!TypeOK
  <2>5. CASE Tick
    BY <2>1, <2>5 DEF Tick, Registry!Tick, storeVars, IInv, EntriesAreMinted
  <2> QED
    BY <1>5, <2>2, <2>3, <2>4, <2>5 DEF Application
<1>6. CASE UNCHANGED vars
  <2>1. (/\ EntriesAreMinted /\ UnallocatedIsEmpty /\ OpeningIsExclusive
         /\ IdleIsEmpty)'
    BY <1>6 DEF vars, IInv, EntriesAreMinted, UnallocatedIsEmpty,
                OpeningIsExclusive, IdleIsEmpty
  <2>2. RequestsAreWellFormed' /\ SnapshotsArePast' /\ ResolvedIsCovered'
    BY <1>6 DEF vars, IInv, RequestsAreWellFormed, SnapshotsArePast,
                ResolvedIsCovered
  <2>3. (NoLostUpdate /\ RevisionCountsCommits /\ CommitsAreCovered)'
    BY <1>6 DEF vars, IInv, NoLostUpdate, RevisionCountsCommits,
                CommitsAreCovered
  <2> QED
    BY <1>0, <2>1, <2>2, <2>3 DEF IInv
<1> QED
  BY <1>1, <1>2, <1>3, <1>4, <1>5, <1>6 DEF Next, Begin, Render

-----------------------------------------------------------------------------
(* What follows. *)

\* Every reachable state satisfies the inductive invariant.
THEOREM Invariance == Spec => []IInv
<1>1. IInv /\ [Next]_vars => IInv'
  BY InvStep
<1> QED
  BY <1>1, InvInit, PTL DEF Spec

\* The variables keep their types.
THEOREM TypeCorrect == Spec => []TypeOK
BY Invariance, PTL DEF IInv

\* The stored state is the fold of every commit that was reported, and its
\* revision is their number, through any races of handlers and engine replies.
THEOREM StateIsHistory == Spec => [](NoLostUpdate /\ RevisionCountsCommits)
BY Invariance, PTL DEF IInv

\* Whatever is committed for a user was covered, at the revision it was applied
\* to, by the capability of the button that was pressed.
THEOREM OnlyCoveredCommits == Spec => []CommitsAreCovered
BY Invariance, PTL DEF IInv

\* Two commits of one Reject token are one: both were applied to the one
\* revision of the one view the token was rendered for.
LEMMA CoveredOnce == TypeOK /\ CommitsAreCovered => AtMostOnce
<1> SUFFICES ASSUME TypeOK, CommitsAreCovered,
                    NEW v \in Views, NEW w \in Views,
                    NEW i \in 1 .. Len(journal[v]), NEW j \in 1 .. Len(journal[w]),
                    journal[v][i].token # None,
                    journal[v][i].token = journal[w][j].token,
                    Exclusive(journal[v][i].token)
             PROVE  v = w /\ i = j
  BY DEF AtMostOnce
<1> DEFINE cap == minted[journal[v][i].token]
<1>1. journal[v][i] # EngineEntry /\ journal[w][j] # EngineEntry
  BY DEF EngineEntry
<1>2. /\ cap.view = v /\ Accepts(cap.stale, cap.revision, i - 1)
      /\ cap.view = w /\ Accepts(cap.stale, cap.revision, j - 1)
  BY <1>1 DEF CommitsAreCovered
<1>3. cap.stale = "reject"
  BY DEF Exclusive
<1>4. cap.revision = i - 1 /\ cap.revision = j - 1
  BY <1>2, <1>3 DEF Accepts
<1>5. journal[v] \in Seq(Entry) /\ journal[w] \in Seq(Entry)
  BY DEF TypeOK
<1>6. i \in Nat /\ j \in Nat
  BY <1>5, LenProperties
<1> QED
  BY <1>2, <1>4, <1>6

\* A button of the Reject policy has at most one effect.
THEOREM ExclusiveOnce == Spec => []AtMostOnce
BY Invariance, CoveredOnce, PTL DEF IInv

\* Only the lookup of an expired token, a prune and a removal drop an entry.
LEMMA SpendStep ==
  ASSUME TypeOK, [Next]_vars,
         NEW t \in Tokens, entries[t] # None, entries'[t] = None
  PROVE  \/ Expired(entries[t], now)
         \/ RemoveToken(t) /\ \A clock \in 0 .. now : ~PruneExpired(clock)
<1>0. /\ entries \in [Tokens -> Registry!ActionRecord \cup {None}]
      /\ now \in Nat
      /\ entries[t] \in Registry!ActionRecord
  BY DEF TypeOK, Registry!TypeOK
<1>1. entries' # entries
  OBVIOUS
<1>2. ASSUME NEW h \in Tasks, Begin(h) \/ Render(h)
      PROVE  FALSE
  <2>1. CASE Begin(h)
    BY <1>1, <2>1 DEF Begin, OpenView, Receive, registryVars
  <2>2. CASE Render(h)
    <3>1. PICK u \in Tokens :
             /\ entries[u] = None
             /\ \E record : entries' = [entries EXCEPT ![u] = record]
      BY <2>2 DEF Render, RenderButton, Registry!Register, Registry!Generated
    <3> QED
      BY <1>0, <3>1
  <2> QED
    BY <1>2, <2>1, <2>2
<1>3. ASSUME NEW h \in Tasks, Step(h)
      PROVE  Expired(entries[t], now)
  <2>1. Resolve(h)
    BY <1>1, <1>3
    DEF Step, InsertView, OpenFails, Load, Commit, Ack, AckFails,
        EngineCommit, EngineFails, Projected, registryVars
  <2>2. PICK u, user, v, r :
           /\ entries' = IF Registry!Resolution(u, user, v, r) = "expired"
                         THEN [entries EXCEPT ![u] = None]
                         ELSE entries
    BY <2>1 DEF Resolve, Registry!Resolve
  <2>3. Registry!Resolution(u, user, v, r) = "expired" /\ u = t
    BY <1>0, <1>1, <2>2
  <2> QED
    BY <2>3 DEF Registry!Resolution, Registry!Expired, Expired
<1>4. ASSUME NEW clock \in 0 .. now, PruneExpired(clock)
      PROVE  Expired(entries[t], now)
  <2>1. ~Registry!Retained(entries[t], clock)
    BY <1>4 DEF PruneExpired, Registry!PruneExpired
  <2> QED
    BY <1>0, <2>1 DEF Registry!Retained, Expired, Registry!ActionRecord, Registry!Expiry
<1>5. CASE Application
  <2>1. ASSUME NEW u \in Tokens, RemoveToken(u)
        PROVE  RemoveToken(t)
    BY <1>0, <2>1 DEF RemoveToken, Registry!Remove
  <2>2. CASE \E clock \in 0 .. now : PruneExpired(clock)
    BY <1>4, <2>2
  <2>3. CASE \E v \in Views : RemoveView(v)
    BY <1>1, <2>3 DEF RemoveView, registryVars
  <2>4. CASE Tick
    BY <1>1, <2>4 DEF Tick, Registry!Tick
  <2> QED
    BY <1>4, <1>5, <2>1, <2>2, <2>3, <2>4 DEF Application
<1>6. CASE UNCHANGED vars
  BY <1>1, <1>6 DEF vars
<1> QED
  BY <1>2, <1>3, <1>5, <1>6 DEF Next

\* No callback and no prune costs anybody a capability that has not expired.
THEOREM NothingSpent == Spec => ClicksSpendNothing
<1>1. TypeOK /\ [Next]_vars =>
         [\A t \in Tokens :
             /\ entries[t] # None
             /\ entries'[t] = None
             => \/ Expired(entries[t], now)
                \/ RemoveToken(t) /\ \A clock \in 0 .. now : ~PruneExpired(clock)]_vars
  BY SpendStep
<1> QED
  BY <1>1, TypeCorrect, PTL DEF Spec, ClicksSpendNothing

-----------------------------------------------------------------------------
(* Of the handlers that race for a revision one wins. *)

\* A task that is about to call compare_and_set.
Contending(h) == pc[h] \in {"commit", "engine"}

\* Nobody holds a record of a view that is still being opened: what was removed
\* from the store never comes back under the same id (ids.rs: ViewId::fresh).
NobodyHoldsOpening ==
    \A h, g \in Tasks :
       pc[h] = "open" /\ pc[g] \in Holding => req[g].view # req[h].view

\* A view is in the store before anybody loads it, and no id is given out twice.
LEMMA OpeningStep ==
    IInv /\ NobodyHoldsOpening /\ [Next]_vars => NobodyHoldsOpening'
<1> SUFFICES ASSUME IInv, NobodyHoldsOpening, [Next]_vars,
                    NEW h \in Tasks, NEW g \in Tasks,
                    pc'[h] = "open", pc'[g] \in Holding
             PROVE  req'[g].view # req'[h].view
  BY DEF NobodyHoldsOpening, Holding
<1>1. /\ pc \in [Tasks -> Places] /\ req \in [Tasks -> Request]
  BY DEF IInv, TypeOK
<1>2. g # h
  BY DEF Holding
<1>3. ASSUME pc[h] = "open", req'[h] = req[h],
             pc[g] \in Holding, req'[g].view = req[g].view
      PROVE  req'[g].view # req'[h].view
  BY <1>3 DEF NobodyHoldsOpening
<1>4. ASSUME NEW k \in Tasks, NEW v \in Views, OpenView(k, v)
      PROVE  req'[g].view # req'[h].view
  <2>1. k # g
    BY <1>1, <1>4 DEF OpenView, Goto, Holding
  <2>2. pc'[g] = pc[g] /\ req'[g] = req[g] /\ req[g].view \in allocated
    BY <1>1, <1>4, <2>1 DEF OpenView, Goto, IInv, RequestsAreWellFormed
  <2>3. CASE k = h
    <3>1. req'[h].view = v /\ v \notin allocated
      BY <1>1, <1>4, <2>3 DEF OpenView, Store!Fresh, NoRequest
    <3> QED
      BY <2>2, <3>1
  <2>4. CASE k # h
    BY <1>1, <1>3, <1>4, <2>2, <2>4 DEF OpenView, Goto
  <2> QED
    BY <2>3, <2>4
<1>5. ASSUME NEW k \in Tasks, NEW t \in Tokens, NEW v \in Views, NEW u \in Users,
             Receive(k, t, v, u)
      PROVE  req'[g].view # req'[h].view
  <2>1. k # g /\ k # h
    BY <1>1, <1>5 DEF Receive, Goto, Holding
  <2> QED
    BY <1>1, <1>3, <1>5, <2>1 DEF Receive, Goto
<1>6. ASSUME NEW k \in Tasks, Finish(k)
      PROVE  req'[g].view # req'[h].view
  <2>1. k # g /\ k # h
    BY <1>1, <1>6 DEF Finish, Holding
  <2> QED
    BY <1>1, <1>3, <1>6, <2>1 DEF Finish
<1>7. ASSUME NEW k \in Tasks, Load(k), ~Finish(k)
      PROVE  req'[g].view # req'[h].view
  <2>1. /\ records[req[k].view] # None
        /\ pc' = [pc EXCEPT ![k] = "resolve"] /\ req' = req
    BY <1>7 DEF Load, Goto, Store!Loaded
  <2>2. pc[h] = "open" /\ records[req[h].view] = None
    BY <1>1, <2>1 DEF IInv, OpeningIsExclusive
  <2>3. CASE k = g
    BY <2>1, <2>2, <2>3
  <2>4. CASE k # g
    BY <1>1, <1>3, <2>1, <2>2, <2>4
  <2> QED
    BY <2>3, <2>4
<1>8. ASSUME NEW k \in Tasks, NEW place \in Holding, pc[k] \in Holding,
             Goto(k, place), \A j \in Tasks : req'[j].view = req[j].view,
             \A j \in Tasks \ {k} : req'[j] = req[j]
      PROVE  req'[g].view # req'[h].view
  <2>1. k # h /\ pc[h] = "open" /\ pc[g] \in Holding
    BY <1>1, <1>8 DEF Goto, Holding
  <2> QED
    BY <1>3, <1>8, <2>1
<1>9. ASSUME NEW k \in Tasks, Step(k), ~Finish(k)
      PROVE  req'[g].view # req'[h].view
  <2>1. CASE Load(k)
    BY <1>7, <1>9, <2>1
  <2>2. CASE Resolve(k)
    BY <1>8, <1>9, <2>2 DEF Resolve, Holding
  <2>3. CASE Commit(k)
    <3>1. /\ pc[k] = "commit" /\ Goto(k, "ack")
          /\ req' = [req EXCEPT ![k] = [NoRequest EXCEPT !.view = req[k].view]]
      BY <1>9, <2>3 DEF Commit
    <3>2. \A j \in Tasks : req'[j].view = req[j].view
      BY <1>1, <3>1 DEF NoRequest
    <3> QED
      BY <1>1, <1>8, <3>1, <3>2 DEF Holding
  <2>4. CASE Ack(k)
    BY <1>8, <2>4 DEF Ack, Holding
  <2>5. CASE EngineCommit(k) \/ EngineFails(k)
    BY <1>8, <2>5 DEF EngineCommit, EngineFails, Holding
  <2> QED
    BY <1>9, <2>1, <2>2, <2>3, <2>4, <2>5
    DEF Step, InsertView, OpenFails, AckFails, Projected
<1>10. UNCHANGED <<pc, req>> => req'[g].view # req'[h].view
  BY <1>3
<1>11. (\E k \in Tasks : Render(k)) \/ Application \/ UNCHANGED vars
          => UNCHANGED <<pc, req>>
  BY DEF Render, RenderButton, Application, RemoveToken, PruneExpired,
         RemoveView, Tick, vars
<1> QED
  BY <1>4, <1>5, <1>6, <1>9, <1>10, <1>11 DEF Next, Begin

\* What a step does to a record: it removes it, counts it up by one through
\* somebody's compare_and_set, or inserts it for the task that opens the view.
LEMMA RecordStep ==
    ASSUME IInv, [Next]_vars, NEW v \in Views, records'[v] # records[v],
           records'[v] # None
    PROVE  \/ \E h \in Tasks : pc[h] = "open" /\ req[h].view = v
           \/ \E h \in Tasks :
                 /\ Contending(h) /\ req[h].view = v /\ Committed(h)
                 /\ records[v] # None
                 /\ records'[v].revision = records[v].revision + 1
<1>1. /\ records \in [Views -> Store!ViewRecord \cup {None}]
      /\ \A h \in Tasks : req[h].view \in Views \cup {None}
  BY DEF IInv, TypeOK, Store!TypeOK, Request
<1>2. ASSUME NEW h \in Tasks, InsertView(h)
      PROVE  pc[h] = "open" /\ req[h].view = v
  BY <1>1, <1>2 DEF InsertView, Store!Insert
<1>3. ASSUME NEW h \in Tasks, Commit(h) \/ EngineCommit(h)
      PROVE  /\ Contending(h) /\ req[h].view = v /\ Committed(h)
             /\ records[v] # None
             /\ records'[v].revision = records[v].revision + 1
  <2>1. Contending(h)
    BY <1>3 DEF Commit, EngineCommit, Contending
  <2>2. PICK entry \in Entry : CommitEntry(h, entry)
    <3>1. CASE Commit(h)
      <4>1. [token |-> req[h].token, actor |-> req[h].actor] \in Entry
        BY DEF IInv, TypeOK, Request, Entry
      <4> QED
        BY <3>1, <4>1 DEF Commit
    <3>2. CASE EngineCommit(h)
      <4>1. EngineEntry \in Entry
        BY DEF EngineEntry, Entry
      <4> QED
        BY <3>2, <4>1 DEF EngineCommit
    <3> QED
      BY <1>3, <3>1, <3>2
  <2>3. /\ Committed(h)
        /\ req[h].view \in Views /\ records[req[h].view] # None
        /\ records' = [records EXCEPT ![req[h].view] =
                          [revision |-> Len(journal[req[h].view]) + 1,
                           state |-> Append(journal[req[h].view], entry)]]
    BY <2>1, <2>2, CommitEffect DEF Contending
  <2>4. req[h].view = v
    BY <1>1, <2>3
  <2>5. records[v].revision = Len(journal[v])
    BY <2>3, <2>4 DEF IInv, RevisionCountsCommits
  <2> QED
    BY <1>1, <2>1, <2>3, <2>4, <2>5
<1>4. ASSUME NEW w \in Views, RemoveView(w) PROVE FALSE
  BY <1>1, <1>4 DEF RemoveView, Store!Remove
<1>5. records' # records
  OBVIOUS
<1>6. ASSUME NEW h \in Tasks, Begin(h) \/ Render(h) PROVE FALSE
  BY <1>5, <1>6 DEF Begin, Render, OpenView, Receive, RenderButton, storeVars,
                    Store!Fresh
<1>7. ASSUME NEW h \in Tasks,
             OpenFails(h) \/ Load(h) \/ Resolve(h) \/ Ack(h) \/ AckFails(h)
                \/ EngineFails(h) \/ Projected(h)
      PROVE  FALSE
  BY <1>5, <1>7 DEF OpenFails, Load, Resolve, Ack, AckFails, EngineFails,
                    Projected, storeVars
<1>8. ~(\E t \in Tokens : RemoveToken(t))
      /\ ~(\E clock \in 0 .. now : PruneExpired(clock)) /\ ~Tick
      /\ ~UNCHANGED vars
  BY <1>5 DEF RemoveToken, PruneExpired, Tick, vars, storeVars
<1> QED
  BY <1>2, <1>3, <1>4, <1>6, <1>7, <1>8 DEF Next, Step, Application

\* A compare_and_set of a task that holds a record of an open view fails only
\* because the view was removed, has no revision left, or was moved on by
\* somebody else after the task loaded it: there is always a winner.
LosersWereOvertaken ==
    \A h \in Tasks :
       LET v == req[h].view
       IN  Contending(h) /\ ~Committed(h) =>
              \/ records[v] = None
              \/ snap[h].revision = MaxRevision
              \/ snap[h].revision < Len(journal[v])

\* Of the tasks that are about to commit on one revision one gets through.
OneHandlerWins ==
    [][\A g, h \in Tasks :
          /\ g # h
          /\ Contending(g) /\ Contending(h) /\ req[g].view = req[h].view
          /\ Committed(h) /\ (Commit(h) \/ EngineCommit(h))
          => ~Committed(g)']_vars

\* A task that has been overtaken cannot get through later: no revision comes
\* back, not even when a view is removed.
LostStaysLost ==
    [][\A g \in Tasks :
          Contending(g) /\ ~Committed(g) /\ pc'[g] = pc[g]
          => ~Committed(g)']_vars

\* What a contender compares.
LEMMA ContenderFacts ==
    ASSUME IInv, NEW h \in Tasks, Contending(h)
    PROVE  LET v == req[h].view
           IN  /\ v \in Views
               /\ snap[h].revision \in 0 .. MaxRevision
               /\ Len(journal[v]) \in Nat
               /\ snap[h].revision <= Len(journal[v])
               /\ records[v] # None =>
                     /\ records[v].revision = Len(journal[v])
                     /\ Committed(h) <=>
                           /\ snap[h].revision = Len(journal[v])
                           /\ Len(journal[v]) # MaxRevision
               /\ records[v] = None => ~Committed(h)
<1> DEFINE v == req[h].view
<1>1. pc[h] \in Holding
  BY DEF Contending, Holding
<1>2. v \in Views
  BY <1>1 DEF IInv, RequestsAreWellFormed, TypeOK, Store!TypeOK
<1>3. snap[h].revision \in 0 .. MaxRevision /\ journal[v] \in Seq(Entry)
  BY <1>2 DEF IInv, TypeOK, Store!ViewRecord, Store!Revision
<1>4. snap[h].revision <= Len(journal[v])
  BY <1>1 DEF IInv, SnapshotsArePast
<1>5. records[v] # None => records[v].revision = Len(journal[v])
  BY <1>2 DEF IInv, RevisionCountsCommits
<1>6. records[v] # None =>
         (Committed(h) <=> /\ snap[h].revision = Len(journal[v])
                           /\ Store!CheckedNext(records[v].revision) # None)
  BY <1>5 DEF Committed, Store!CasOutcome
<1>7. records[v] # None => records[v].revision \in Revision
  BY <1>2 DEF IInv, TypeOK, Store!TypeOK, Store!ViewRecord, Store!Revision, Revision
<1>8. records[v] # None =>
         (Store!CheckedNext(records[v].revision) # None
            <=> records[v].revision # MaxRevision)
  <2>1. ASSUME records[v] # None, records[v].revision # MaxRevision
        PROVE  records[v].revision + 1 \in Nat
    BY <1>7, <2>1, RevisionAssumption DEF Revision
  <2> QED
    BY <2>1, NoneAssumption DEF Store!CheckedNext
<1>9. records[v] = None => ~Committed(h)
  BY DEF Committed, Store!CasOutcome
<1> QED
  BY <1>2, <1>3, <1>4, <1>5, <1>6, <1>8, <1>9

\* A contender that goes on contending holds what it held.
LEMMA ContenderWaits ==
    ASSUME IInv, [Next]_vars, NEW g \in Tasks, Contending(g), pc'[g] = pc[g]
    PROVE  req'[g] = req[g] /\ snap'[g] = snap[g]
<1>1. /\ pc \in [Tasks -> Places] /\ req \in [Tasks -> Request]
      /\ snap \in [Tasks -> Store!ViewRecord]
  BY DEF IInv, TypeOK
<1>2. ASSUME NEW h \in Tasks, Begin(h)
      PROVE  req'[g] = req[g] /\ snap'[g] = snap[g]
  BY <1>1, <1>2 DEF Begin, OpenView, Receive, Goto, Contending
<1>3. ASSUME NEW h \in Tasks, Step(h)
      PROVE  req'[g] = req[g] /\ snap'[g] = snap[g]
  <2>1. h # g
    BY <1>1, <1>3 DEF Step, InsertView, OpenFails, Load, Resolve, Commit, Ack,
                      AckFails, EngineCommit, EngineFails, Projected, Finish,
                      Goto, Contending
  <2> QED
    BY <1>1, <1>3, <2>1
    DEF Step, InsertView, OpenFails, Load, Resolve, Commit, Ack, AckFails,
        EngineCommit, EngineFails, Projected, Finish
<1>4. (\E h \in Tasks : Render(h)) \/ Application \/ UNCHANGED vars
         => UNCHANGED <<req, snap>>
  BY DEF Render, RenderButton, Application, RemoveToken, PruneExpired,
         RemoveView, Tick, vars
<1> QED
  BY <1>2, <1>3, <1>4 DEF Next

\* The two action properties, of one step.
LEMMA ContentionStep ==
    ASSUME IInv, NobodyHoldsOpening, [Next]_vars,
           NEW g \in Tasks, Contending(g), pc'[g] = pc[g]
    PROVE  /\ ~Committed(g) => ~Committed(g)'
           /\ \A h \in Tasks \ {g} :
                 /\ Contending(h) /\ req[h].view = req[g].view
                 /\ Committed(h) /\ (Commit(h) \/ EngineCommit(h))
                 => ~Committed(g)'
<1> DEFINE v == req[g].view
<1>1. IInv'
  BY InvStep
<1>2. /\ req'[g] = req[g] /\ snap'[g] = snap[g] /\ Contending(g)'
  BY ContenderWaits DEF Contending
<1>3. /\ v \in Views /\ snap[g].revision \in 0 .. MaxRevision
      /\ Len(journal[v]) \in Nat /\ snap[g].revision <= Len(journal[v])
      /\ records[v] # None =>
            /\ records[v].revision = Len(journal[v])
            /\ Committed(g) <=> /\ snap[g].revision = Len(journal[v])
                                /\ Len(journal[v]) # MaxRevision
  BY ContenderFacts
<1>4. /\ records'[v] = None => ~Committed(g)'
      /\ records'[v] # None /\ Committed(g)' =>
            snap[g].revision = records'[v].revision
  BY <1>2 DEF Committed, Store!CasOutcome
<1>5. ASSUME records'[v] # records[v], records'[v] # None
      PROVE  ~Committed(g)'
  <2>1. ~ \E h \in Tasks : pc[h] = "open" /\ req[h].view = v
    BY DEF NobodyHoldsOpening, Contending, Holding
  <2>2. /\ records[v] # None
        /\ records'[v].revision = records[v].revision + 1
    BY <1>3, <1>5, <2>1, RecordStep
  <2> QED
    BY <1>3, <1>4, <1>5, <2>2
<1>6. ASSUME records'[v] = records[v], ~Committed(g) PROVE ~Committed(g)'
  BY <1>2, <1>6 DEF Committed, Store!CasOutcome, Store!CheckedNext
<1>7. ASSUME NEW h \in Tasks \ {g}, Contending(h), req[h].view = v,
             Committed(h), Commit(h) \/ EngineCommit(h)
      PROVE  records'[v] # records[v]
  <2>1. PICK entry : CommitEntry(h, entry)
    BY <1>7 DEF Commit, EngineCommit
  <2>2. Store!CasOutcome(v, snap[h].revision) = "ok"
    BY <1>7 DEF Committed
  <2>3. /\ records[v] # None /\ records[v].revision \in Nat
        /\ Store!CheckedNext(records[v].revision) # None
    BY <1>3, <2>2 DEF Store!CasOutcome
  <2>4. records'[v] = [revision |-> Store!CheckedNext(records[v].revision),
                       state |-> Append(snap[h].state, entry)]
    BY <1>3, <1>7, <2>1, <2>2
    DEF CommitEntry, Store!CompareAndSet, IInv, TypeOK, Store!TypeOK
  <2>5. Store!CheckedNext(records[v].revision) = records[v].revision + 1
    BY <2>3 DEF Store!CheckedNext
  <2>6. records'[v].revision # records[v].revision
    BY <2>3, <2>4, <2>5
  <2> QED
    BY <2>6
<1> QED
  BY <1>4, <1>5, <1>6, <1>7

\* Optimistic concurrency loses nobody's turn for nothing: of the handlers that
\* race for a revision exactly one gets it, the others were overtaken by it, and
\* stay so.  (That the one which gets through does get through is
\* ContentionResolves, which needs fairness.)
THEOREM OneWinnerPerRevision ==
    Spec => []LosersWereOvertaken /\ OneHandlerWins /\ LostStaysLost
<1>1. Init => NobodyHoldsOpening
  BY DEF Init, NobodyHoldsOpening, Holding
<1>2. Spec => [](IInv /\ NobodyHoldsOpening)
  BY <1>1, InvInit, InvStep, OpeningStep, PTL DEF Spec
<1>3. IInv => LosersWereOvertaken
  <2> SUFFICES ASSUME IInv, NEW h \in Tasks, Contending(h), ~Committed(h)
               PROVE  \/ records[req[h].view] = None
                      \/ snap[h].revision = MaxRevision
                      \/ snap[h].revision < Len(journal[req[h].view])
    BY DEF LosersWereOvertaken
  <2> QED
    BY ContenderFacts, RevisionAssumption
<1>4. IInv /\ NobodyHoldsOpening /\ [Next]_vars =>
         [\A g, h \in Tasks :
             /\ g # h
             /\ Contending(g) /\ Contending(h) /\ req[g].view = req[h].view
             /\ Committed(h) /\ (Commit(h) \/ EngineCommit(h))
             => ~Committed(g)']_vars
  <2> SUFFICES ASSUME IInv, NobodyHoldsOpening, [Next]_vars,
                      NEW g \in Tasks, NEW h \in Tasks, g # h,
                      Contending(g), Contending(h), req[g].view = req[h].view,
                      Committed(h), Commit(h) \/ EngineCommit(h)
               PROVE  ~Committed(g)'
    OBVIOUS
  <2>1. pc'[g] = pc[g]
    BY DEF Commit, EngineCommit, Goto, Finish, IInv, TypeOK
  <2> QED
    BY <2>1, ContentionStep
<1>5. IInv /\ NobodyHoldsOpening /\ [Next]_vars =>
         [\A g \in Tasks :
             Contending(g) /\ ~Committed(g) /\ pc'[g] = pc[g]
             => ~Committed(g)']_vars
  BY ContentionStep
<1> QED
  BY <1>2, <1>3, <1>4, <1>5, PTL DEF Spec, OneHandlerWins, LostStaysLost

-----------------------------------------------------------------------------
(* The callback path implements the atomic capability log. *)

\* Nothing is open in the log either.
LEMMA RefineInit == Init => Atomic!Init
BY DEF Init, Registry!Init, Store!Init, Atomic!Init, Granted

\* Rendering a button grants a capability that is not ahead of its view.
LEMMA RefineRender ==
    ASSUME IInv, NEW h \in Tasks, NEW t \in Tokens, NEW actor \in Actors,
           NEW stale \in Policies, NEW clock \in 0 .. now, NEW ttl \in TTLs,
           RenderButton(h, t, actor, stale, clock, ttl)
    PROVE  Atomic!Grant(t)
<1> DEFINE cap == [view |-> req[h].view, revision |-> snap[h].revision,
                   actor |-> actor, stale |-> stale]
           record == Registry!NewRecord(req[h].view, snap[h].revision, actor,
                                        stale, clock, ttl)
<1>1. /\ minted[t] = None
      /\ minted' = [minted EXCEPT ![t] = record]
      /\ UNCHANGED <<journal, allocated>>
  BY DEF RenderButton, Registry!Register, Registry!Generated, storeVars
<1>2. /\ req[h].view \in Views
      /\ snap[h].revision \in Revision
      /\ snap[h].revision <= Len(journal[req[h].view])
  <2>1. CASE pc[h] = "open"
    <3>1. req[h].view \in Views
      BY <2>1 DEF IInv, OpeningIsExclusive, TypeOK, Store!TypeOK
    <3>2. snap[h] = NoSnapshot /\ journal[req[h].view] = << >>
      BY <2>1 DEF IInv, OpeningIsExclusive
    <3> QED
      BY <3>1, <3>2, RevisionAssumption DEF NoSnapshot, Initial, Revision
  <2>2. CASE pc[h] = "render"
    BY <2>2 DEF IInv, SnapshotsArePast, RequestsAreWellFormed, Holding, TypeOK,
                Store!TypeOK, Store!ViewRecord, Store!Revision, Revision
  <2> QED
    BY <2>1, <2>2 DEF RenderButton
<1>3. cap \in Capability
  BY <1>2, PoliciesAssumption DEF Capability
<1>4. record \in ActionRecord
  <2>1. ExpiresAt(clock, ttl) \in Expiry
    BY TTLAssumption DEF ExpiresAt, Expiry, IInv, TypeOK, Registry!TypeOK
  <2> QED
    BY <1>2, <2>1, PoliciesAssumption
    DEF ActionRecord, Registry!NewRecord, Registry!ExpiresAt, ExpiresAt
<1>5. record # None
  BY <1>4, NoneIsNoRecord
<1>6. [x \in Tokens |-> Granted(x)]' =
         [[x \in Tokens |-> Granted(x)] EXCEPT ![t] = cap]
  BY <1>1, <1>5 DEF Granted, Registry!NewRecord, IInv, TypeOK, Registry!TypeOK
<1>7. [x \in Tokens |-> Granted(x)][t] = None
  BY <1>1 DEF Granted
<1>8. cap \in Atomic!Capability
  BY <1>3 DEF Capability, Atomic!Capability, Revision, Atomic!Revision,
              ActorPolicy, Atomic!ActorPolicy, StalePolicy, Atomic!StalePolicy
<1> QED
  BY <1>1, <1>2, <1>6, <1>7, <1>8 DEF Atomic!Grant

\* A successful compare_and_set is one step of the log.
LEMMA RefineCommit ==
    ASSUME IInv, NEW h \in Tasks, pc[h] \in {"commit", "engine"},
           NEW entry \in Entry, CommitEntry(h, entry), Committed(h),
           UNCHANGED minted
    PROVE  Atomic!Extend(req[h].view, entry)
<1>1. /\ Len(journal[req[h].view]) < MaxRevision
      /\ journal' = [journal EXCEPT ![req[h].view] = Append(@, entry)]
      /\ allocated' = allocated
  BY CommitEffect
<1>2. req[h].view \in allocated
  BY DEF IInv, RequestsAreWellFormed, Holding
<1>3. UNCHANGED [t \in Tokens |-> Granted(t)]
  BY DEF Granted
<1> QED
  BY <1>1, <1>2, <1>3 DEF Atomic!Extend

\* A task that is let through still holds a capability that covers the journal
\* as it stands when its compare_and_set succeeds.
LEMMA RefineAllows ==
    ASSUME IInv, NEW h \in Tasks, pc[h] = "commit", Committed(h),
           CommitEntry(h, [token |-> req[h].token, actor |-> req[h].actor])
    PROVE  /\ req[h].token \in Tokens /\ req[h].actor \in Users
           /\ req[h].view \in Views
           /\ Atomic!Allows(req[h].token, req[h].view, req[h].actor)
<1> DEFINE t == req[h].token
           cap == [view |-> minted[t].view, revision |-> minted[t].revision,
                   actor |-> minted[t].actor, stale |-> minted[t].stale]
<1>1. t \in Tokens /\ req[h].actor \in Users
  BY DEF IInv, RequestsAreWellFormed
<1>2. [token |-> t, actor |-> req[h].actor] \in Entry
  BY <1>1 DEF Entry
<1>3. req[h].view \in Views /\ snap[h].revision = Len(journal[req[h].view])
  BY <1>2, CommitEffect
<1>4. /\ minted[t] # None /\ minted[t].view = req[h].view
      /\ Permits(minted[t].actor, req[h].actor)
      /\ Accepts(minted[t].stale, minted[t].revision, snap[h].revision)
  BY DEF IInv, ResolvedIsCovered
<1>5. cap # None
  <2>1. minted[t] \in Registry!ActionRecord
    BY <1>1, <1>4 DEF IInv, TypeOK, Registry!TypeOK
  <2>2. cap \in Capability
    BY <2>1 DEF Registry!ActionRecord, Capability, Registry!Revision, Revision,
                Registry!ActorPolicy, ActorPolicy, Registry!StalePolicy,
                StalePolicy
  <2> QED
    BY <2>2, NoneIsNoRecord
<1>6. [x \in Tokens |-> Granted(x)][t] = cap
  BY <1>1, <1>4 DEF Granted
<1>7. Atomic!Allows(t, req[h].view, req[h].actor)
  BY <1>3, <1>4, <1>5, <1>6
  DEF Atomic!Allows, Atomic!Permits, Permits, Atomic!Accepts, Accepts
<1> QED
  BY <1>1, <1>3, <1>7

\* Every step of the callback path is one step of the log, or invisible there:
\* only an id, a rendered button and a successful compare_and_set show.
LEMMA RefineStep == IInv /\ [Next]_vars => [Atomic!Next]_(Atomic!vars)
<1> SUFFICES ASSUME IInv, [Next]_vars
             PROVE  Atomic!Next \/ UNCHANGED Atomic!vars
  OBVIOUS
<1>1. ASSUME UNCHANGED <<minted, journal, allocated>>
      PROVE  UNCHANGED Atomic!vars
  BY <1>1 DEF Atomic!vars, Granted
<1>2. ASSUME NEW h \in Tasks, NEW v \in Views, OpenView(h, v)
      PROVE  Atomic!Next
  <2>1. UNCHANGED <<minted, journal>>
    BY <1>2 DEF OpenView, registryVars
  <2>2. UNCHANGED [t \in Tokens |-> Granted(t)]
    BY <2>1 DEF Granted
  <2>3. Atomic!Open(v)
    BY <1>2, <2>1, <2>2 DEF OpenView, Store!Fresh, Atomic!Open
  <2> QED
    BY <2>3 DEF Atomic!Next
<1>3. ASSUME NEW h \in Tasks, Render(h) PROVE Atomic!Next
  <2>1. PICK t \in Tokens, actor \in Actors, stale \in Policies, clock \in 0 .. now,
             ttl \in TTLs : RenderButton(h, t, actor, stale, clock, ttl)
    BY <1>3 DEF Render
  <2> QED
    BY <2>1, RefineRender DEF Atomic!Next
<1>4. ASSUME NEW h \in Tasks, NEW t \in Tokens, NEW v \in Views, NEW u \in Users,
             Receive(h, t, v, u)
      PROVE  UNCHANGED Atomic!vars
  BY <1>1, <1>4 DEF Receive, registryVars, storeVars
<1>5. ASSUME NEW h \in Tasks, Commit(h)
      PROVE  Atomic!Next \/ UNCHANGED Atomic!vars
  <2> DEFINE entry == [token |-> req[h].token, actor |-> req[h].actor]
  <2>1. pc[h] = "commit" /\ CommitEntry(h, entry) /\ UNCHANGED minted
    BY <1>5 DEF Commit, registryVars
  <2>2. entry \in Entry
    BY DEF IInv, TypeOK, Request, Entry
  <2>3. CASE Committed(h)
    <3>1. /\ req[h].token \in Tokens /\ req[h].actor \in Users
          /\ req[h].view \in Views
          /\ Atomic!Allows(req[h].token, req[h].view, req[h].actor)
      BY <2>1, <2>3, RefineAllows
    <3>2. Atomic!Extend(req[h].view, entry)
      BY <2>1, <2>2, <2>3, RefineCommit
    <3> QED
      BY <3>1, <3>2 DEF Atomic!Next, Atomic!Use
  <2>4. CASE ~Committed(h)
    BY <1>1, <2>1, <2>2, <2>4, CommitEffect
  <2> QED
    BY <2>3, <2>4
<1>6. ASSUME NEW h \in Tasks, EngineCommit(h)
      PROVE  Atomic!Next \/ UNCHANGED Atomic!vars
  <2>1. /\ pc[h] = "engine" /\ CommitEntry(h, EngineEntry)
        /\ UNCHANGED minted
    BY <1>6 DEF EngineCommit, registryVars
  <2>2. EngineEntry \in Entry
    BY DEF EngineEntry, Entry
  <2>3. CASE Committed(h)
    <3>1. Atomic!Extend(req[h].view, EngineEntry) /\ req[h].view \in Views
      BY <2>1, <2>2, <2>3, RefineCommit, CommitEffect
    <3> QED
      BY <3>1
      DEF Atomic!Next, Atomic!EngineReply, Atomic!EngineEntry, EngineEntry
  <2>4. CASE ~Committed(h)
    BY <1>1, <2>1, <2>2, <2>4, CommitEffect
  <2> QED
    BY <2>3, <2>4
<1>7. ASSUME NEW h \in Tasks, Step(h), ~Commit(h), ~EngineCommit(h)
      PROVE  UNCHANGED <<minted, journal, allocated>>
  BY <1>7 DEF Step, InsertView, OpenFails, Load, Resolve, Ack, AckFails,
              EngineFails, Projected, Store!Insert, Registry!Resolve,
              registryVars, storeVars
<1>8. ASSUME Application
      PROVE  UNCHANGED <<minted, journal, allocated>>
  BY <1>8 DEF Application, RemoveToken, PruneExpired, RemoveView, Tick,
              Registry!Remove, Registry!PruneExpired, Registry!Tick,
              Store!Remove, registryVars, storeVars
<1>9. CASE UNCHANGED vars
  BY <1>1, <1>9 DEF vars
<1> QED
  BY <1>1, <1>2, <1>3, <1>4, <1>5, <1>6, <1>7, <1>8, <1>9 DEF Next, Begin

\* The concurrent handlers implement the log in which every click is one step
\* (CapabilityLog), for any number of tasks, views, tokens and revisions.
THEOREM Implementation == Spec => ImplementsCapabilityLog
<1>1. Spec => Atomic!Spec
  BY RefineInit, RefineStep, Invariance, PTL DEF Spec, Atomic!Spec
<1> QED
  BY <1>1 DEF ImplementsCapabilityLog
=============================================================================
