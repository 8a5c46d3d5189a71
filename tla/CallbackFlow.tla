---------------------------- MODULE CallbackFlow ----------------------------
(***************************************************************************)
(* The callback path: tasks that handle clicks and tasks that open views,  *)
(* running concurrently over one ActionRegistry and one UiStore            *)
(* (handle_callback and start_game_in_chat of the chess application, with  *)
(* the library calls they make).                                           *)
(*                                                                         *)
(* A task works on a snapshot: it loads the view, resolves the token       *)
(* against the revision it loaded, computes the next state from the state  *)
(* it loaded, and commits with compare_and_set.  Every call on a shared    *)
(* structure is a step of its own, and everything of the other tasks may   *)
(* happen in between.                                                      *)
(*                                                                         *)
(* The application's state is abstracted to the list of the actions that   *)
(* were applied to reach it, so that two states are equal exactly when the *)
(* same clicks led to them.  What a transition decides is left open: it    *)
(* may accept or refuse any resolved action, and the engine may or may not *)
(* have a reply to make.                                                   *)
(***************************************************************************)
EXTENDS UiTypes, Sequences

CONSTANTS
    Tasks,    \* concurrently running handler tasks
    Actors,   \* the actor policies the application renders with
    Policies  \* the staleness policies it renders with

ASSUME PoliciesAssumption ==
    /\ Actors \subseteq ActorPolicy
    /\ Policies \subseteq StalePolicy

VARIABLES
    entries, minted, now,  \* the ActionRegistry
    records, allocated,    \* the UiStore
    journal,  \* history variable: the actions committed on each view
    pc,       \* where each task stands
    req,      \* its callback: token, user, and the view its surface is bound to
    snap      \* the ViewRecord it holds

registryVars == <<entries, minted, now>>
storeVars == <<records, allocated>>
vars == <<entries, minted, now, records, allocated, journal, pc, req, snap>>

Entry == [token : Tokens \cup {None}, actor : Users \cup {None}]

EngineEntry == [token |-> None, actor |-> None]

Registry == INSTANCE ActionRegistry
Store == INSTANCE UiStore WITH States <- Seq(Entry)

-----------------------------------------------------------------------------

Places == {"idle", "open", "load", "resolve", "commit", "ack", "engine",
           "render"}

Request == [token : Tokens \cup {None}, actor : Users \cup {None},
            view : Views \cup {None}]

NoRequest == [token |-> None, actor |-> None, view |-> None]
NoSnapshot == [revision |-> Initial, state |-> << >>]

TypeOK ==
    /\ Registry!TypeOK
    /\ Store!TypeOK
    /\ journal \in [Views -> Seq(Entry)]
    /\ pc \in [Tasks -> Places]
    /\ req \in [Tasks -> Request]
    /\ snap \in [Tasks -> Store!ViewRecord]

Init ==
    /\ Registry!Init
    /\ Store!Init
    /\ journal = [v \in Views |-> << >>]
    /\ pc = [h \in Tasks |-> "idle"]
    /\ req = [h \in Tasks |-> NoRequest]
    /\ snap = [h \in Tasks |-> NoSnapshot]

-----------------------------------------------------------------------------
(* Steps of a task. *)

Goto(h, place) == pc' = [pc EXCEPT ![h] = place]

\* The task is over: what it held is gone.
Finish(h) ==
    /\ pc' = [pc EXCEPT ![h] = "idle"]
    /\ req' = [req EXCEPT ![h] = NoRequest]
    /\ snap' = [snap EXCEPT ![h] = NoSnapshot]

\* start_game_in_chat up to the render of the first projection: the id is
\* allocated, the record exists only in the task.
OpenView(h, v) ==
    /\ pc[h] = "idle"
    /\ Store!Fresh(v)
    /\ Goto(h, "open")
    /\ req' = [req EXCEPT ![h] = [NoRequest EXCEPT !.view = v]]
    /\ UNCHANGED <<registryVars, journal, snap>>

\* A render of the record the task holds registers one capability per enabled
\* button, each under its own acquisition of the registry's lock.
RenderButton(h, t, actor, stale, clock, ttl) ==
    /\ pc[h] \in {"open", "render"}
    /\ Registry!Register(t, req[h].view, snap[h].revision, actor, stale,
                         clock, ttl)
    /\ UNCHANGED <<storeVars, journal, pc, req, snap>>

\* The first message has been sent: the view enters the store.
InsertView(h) ==
    /\ pc[h] = "open"
    /\ Store!Insert(req[h].view, snap[h])
    /\ Finish(h)
    /\ UNCHANGED <<registryVars, journal>>

\* The first message could not be sent: the view never enters the store, and
\* the capabilities rendered for it stay in the registry.
OpenFails(h) ==
    /\ pc[h] = "open"
    /\ Finish(h)
    /\ UNCHANGED <<registryVars, storeVars, journal>>

\* A callback arrives: its data is some token, its surface is bound to some
\* view that has been opened (binding_for), and the two need not belong
\* together.
Receive(h, t, v, u) ==
    /\ pc[h] = "idle"
    /\ v \in allocated
    /\ Goto(h, "load")
    /\ req' = [req EXCEPT ![h] = [token |-> t, actor |-> u, view |-> v]]
    /\ UNCHANGED <<registryVars, storeVars, journal, snap>>

Load(h) ==
    /\ pc[h] = "load"
    /\ IF Store!Loaded(req[h].view) = None
       THEN Finish(h)
       ELSE /\ snap' = [snap EXCEPT ![h] = Store!Loaded(req[h].view)]
            /\ Goto(h, "resolve")
            /\ UNCHANGED req
    /\ UNCHANGED <<registryVars, storeVars, journal>>

\* Mutated form of Resolve: whatever the registry answers, the task goes on
\* as long as the token is known.
ResolveKnown(h) ==
    /\ pc[h] = "resolve"
    /\ Registry!Resolve(req[h].token, req[h].actor, req[h].view,
                        snap[h].revision)
    /\ IF entries[req[h].token] # None
       THEN Goto(h, "commit") /\ UNCHANGED <<req, snap>>
       ELSE Finish(h)
    /\ UNCHANGED <<storeVars, journal>>

\* registry.resolve against the LOADED revision, then the transition, which
\* reads nothing but the snapshot.  A resolved action is committed, or is a
\* flip that only renders what was loaded (once its callback is answered), or
\* is refused.
Resolve(h) ==
    /\ pc[h] = "resolve"
    /\ Registry!Resolve(req[h].token, req[h].actor, req[h].view,
                        snap[h].revision)
    /\ \/ /\ Registry!Resolution(req[h].token, req[h].actor, req[h].view,
                                 snap[h].revision) = "ok"
          /\ \E place \in {"commit", "render"} : Goto(h, place)
          /\ UNCHANGED <<req, snap>>
       \/ Finish(h)
    /\ UNCHANGED <<storeVars, journal>>

\* compare_and_set of the state computed from the snapshot.  When it succeeds
\* the task goes on with the record it returned, else it is over or, for the
\* engine's reply, goes on with the record it had.
CommitEntry(h, entry) ==
    LET v == req[h].view
    IN  /\ Store!CompareAndSet(v, snap[h].revision,
                               Append(snap[h].state, entry))
        /\ journal' = IF Store!CasOutcome(v, snap[h].revision) = "ok"
                      THEN [journal EXCEPT ![v] = Append(@, entry)]
                      ELSE journal

Committed(h) == Store!CasOutcome(req[h].view, snap[h].revision) = "ok"

\* Mutated form of Commit: the state computed from the snapshot is committed
\* against the revision that is current by then.
CommitOverCurrent(h) ==
    LET v == req[h].view
        entry == [token |-> req[h].token, actor |-> req[h].actor]
    IN  /\ pc[h] = "commit"
        /\ records[v] # None
        /\ CheckedNext(records[v].revision) # None
        /\ Store!CompareAndSet(v, records[v].revision,
                               Append(snap[h].state, entry))
        /\ journal' = [journal EXCEPT ![v] = Append(@, entry)]
        /\ snap' = [snap EXCEPT ![h] = records'[v]]
        /\ req' = [req EXCEPT ![h] = [NoRequest EXCEPT !.view = v]]
        /\ Goto(h, "ack")
        /\ UNCHANGED registryVars

\* From here on the task needs nothing of its callback but the view.
Commit(h) ==
    /\ pc[h] = "commit"
    /\ CommitEntry(h, [token |-> req[h].token, actor |-> req[h].actor])
    /\ IF Committed(h)
       THEN /\ snap' = [snap EXCEPT ![h] = records'[req[h].view]]
            /\ req' = [req EXCEPT ![h] = [NoRequest EXCEPT !.view = req[h].view]]
            /\ Goto(h, "ack")
       ELSE Finish(h)
    /\ UNCHANGED registryVars

\* The callback is answered; if that fails the handler returns.
Ack(h) ==
    /\ pc[h] = "ack"
    /\ \E place \in {"engine", "render"} : Goto(h, place)
    /\ UNCHANGED <<registryVars, storeVars, journal, req, snap>>

AckFails(h) ==
    /\ pc[h] = "ack"
    /\ Finish(h)
    /\ UNCHANGED <<registryVars, storeVars, journal>>

\* The engine's reply to the state this task committed.
EngineCommit(h) ==
    /\ pc[h] = "engine"
    /\ CommitEntry(h, EngineEntry)
    /\ snap' = IF Committed(h)
               THEN [snap EXCEPT ![h] = records'[req[h].view]]
               ELSE snap
    /\ Goto(h, "render")
    /\ UNCHANGED <<registryVars, req>>

\* No engine, no move, or a move that does not apply.
EngineFails(h) ==
    /\ pc[h] = "engine"
    /\ Goto(h, "render")
    /\ UNCHANGED <<registryVars, storeVars, journal, req, snap>>

\* The projections are over, whatever became of them.
Projected(h) ==
    /\ pc[h] = "render"
    /\ Finish(h)
    /\ UNCHANGED <<registryVars, storeVars, journal>>

-----------------------------------------------------------------------------
(* Calls the library offers and an application may make at any time. *)

RemoveToken(t) ==
    /\ Registry!Remove(t)
    /\ UNCHANGED <<storeVars, journal, pc, req, snap>>

PruneExpired(clock) ==
    /\ Registry!PruneExpired(clock)
    /\ UNCHANGED <<storeVars, journal, pc, req, snap>>

RemoveView(v) ==
    /\ records[v] # None
    /\ Store!Remove(v)
    /\ UNCHANGED <<registryVars, journal, pc, req, snap>>

Tick ==
    /\ Registry!Tick
    /\ UNCHANGED <<storeVars, journal, pc, req, snap>>

-----------------------------------------------------------------------------

\* What a task does by itself once it has begun.
Step(h) ==
    \/ InsertView(h) \/ OpenFails(h)
    \/ Load(h) \/ Resolve(h) \/ Commit(h)
    \/ Ack(h) \/ AckFails(h)
    \/ EngineCommit(h) \/ EngineFails(h)
    \/ Projected(h)

Render(h) ==
    \E t \in Tokens, actor \in Actors, stale \in Policies,
       clock \in 0 .. now, ttl \in TTLs :
       RenderButton(h, t, actor, stale, clock, ttl)

Begin(h) ==
    \/ \E v \in Views : OpenView(h, v)
    \/ \E t \in Tokens, v \in Views, u \in Users : Receive(h, t, v, u)

Application ==
    \/ \E t \in Tokens : RemoveToken(t)
    \/ \E clock \in 0 .. now : PruneExpired(clock)
    \/ \E v \in Views : RemoveView(v)
    \/ Tick

Next ==
    \/ \E h \in Tasks : Begin(h) \/ Render(h) \/ Step(h)
    \/ Application

Spec == Init /\ [][Next]_vars

\* The runtime keeps polling a task that can run, and every request a task
\* awaits ends with an answer or an error.
FairSpec == Spec /\ \A h \in Tasks : WF_vars(Step(h))

-----------------------------------------------------------------------------
(* Properties. *)

Exclusive(t) == minted[t] # None /\ minted[t].stale = "reject"

\* No update is lost: the state of a view is the result of every action that
\* was reported committed on it, each applied to the state the one before it
\* left (store.rs: compare_and_set, main.rs: handle_callback).
NoLostUpdate ==
    \A v \in Views : records[v] # None => records[v].state = journal[v]

\* A revision names one state: it counts the commits, also where the counter
\* can advance no further (ids.rs: checked_next, store.rs:
\* RevisionExhausted).
RevisionCountsCommits ==
    \A v \in Views : records[v] # None => records[v].revision = Len(journal[v])

\* One button press, one effect: however often a token of the Reject policy is
\* clicked, by whomever and through however many concurrent handlers, at most
\* one commit comes of it (action.rs: StalePolicy::Reject).
AtMostOnce ==
    \A v, w \in Views :
       \A i \in 1 .. Len(journal[v]), j \in 1 .. Len(journal[w]) :
          /\ journal[v][i].token # None
          /\ journal[v][i].token = journal[w][j].token
          /\ Exclusive(journal[v][i].token)
          => v = w /\ i = j

\* Every commit made for a user is covered by the capability of the button
\* that was pressed: it was rendered for that view, its actor policy admits
\* that user, and its staleness policy accepts the revision the action was
\* APPLIED to, not merely the one it was resolved against.
CommitsAreCovered ==
    \A v \in Views : \A i \in 1 .. Len(journal[v]) :
       LET entry == journal[v][i]
           cap == minted[entry.token]
       IN  entry # EngineEntry =>
              /\ entry.token # None
              /\ cap # None
              /\ cap.view = v
              /\ Permits(cap.actor, entry.actor)
              /\ Accepts(cap.stale, cap.revision, i - 1)

\* A callback takes a capability away only once its expiry has passed: not by
\* being turned away (a wrong user, a surface bound to another view, a stale
\* revision), and not by being applied.  Neither does a prune, though it acts
\* on a reading of the clock that is older than the callbacks served meanwhile.
\* The application's own Remove may; a step counts as one only if no prune makes
\* it.
ClicksSpendNothing ==
    [][\A t \in Tokens :
          /\ entries[t] # None
          /\ entries'[t] = None
          => \/ Expired(entries[t], now)
             \/ RemoveToken(t) /\ \A clock \in 0 .. now : ~PruneExpired(clock)]_vars

\* Among concurrent handlers someone always gets through: once a handler is
\* about to commit on the revision that is current, the view moves on (or is
\* removed, or has no revision left).
ContentionResolves ==
    \A h \in Tasks, v \in Views, r \in Revision \ {MaxRevision} :
       (/\ pc[h] = "commit"
        /\ req[h].view = v
        /\ snap[h].revision = r)
       ~> (Len(journal[v]) > r \/ records[v] = None)

\* A callback is answered before its action is resolved (docs/ARCHITECTURE.md:
\* "it sends the empty ACK through the shared outbound queue before resolving
\* the action or starting projection").
AckPrecedesResolution ==
    [][\A h \in Tasks : pc[h] \in {"resolve", "commit"} => pc'[h] # "ack"]_vars

\* The part of a minted record that does not depend on the clock.
Granted(t) ==
    IF minted[t] = None THEN None
    ELSE [view |-> minted[t].view, revision |-> minted[t].revision,
          actor |-> minted[t].actor, stale |-> minted[t].stale]

\* The handlers, snapshots and revisions together behave as if every click
\* took effect in one step on a journal that nobody else is using.
Atomic ==
    INSTANCE CapabilityLog
    WITH granted <- [t \in Tokens |-> Granted(t)],
         opened <- allocated

ImplementsCapabilityLog == Atomic!Spec

-----------------------------------------------------------------------------
(* The inductive invariant from which the safety properties follow. *)

\* The tasks that hold a record they loaded or committed.
Holding == {"resolve", "commit", "ack", "engine", "render"}

\* What the registry holds of a token is what the token was minted with.
EntriesAreMinted == \A t \in Tokens : entries[t] \in {None, minted[t]}

\* A view that no id was allocated for has no record and no history.
UnallocatedIsEmpty ==
    \A v \in Views : v \notin allocated => records[v] = None /\ journal[v] = << >>

\* The task that opens a view is alone with it until it inserts it.
OpeningIsExclusive ==
    \A h \in Tasks :
       pc[h] = "open" =>
          /\ req[h].view \in allocated
          /\ records[req[h].view] = None
          /\ journal[req[h].view] = << >>
          /\ snap[h] = NoSnapshot
          /\ \A g \in Tasks \ {h} :
                pc[g] = "open" => req[g].view # req[h].view

\* A task that ended has let go of its record.
IdleIsEmpty ==
    \A h \in Tasks : pc[h] \in {"idle", "load"} => snap[h] = NoSnapshot

RequestsAreWellFormed ==
    \A h \in Tasks :
       /\ pc[h] \in {"load", "resolve", "commit"} =>
             req[h].token \in Tokens /\ req[h].actor \in Users
       /\ pc[h] \in Holding \cup {"load"} => req[h].view \in allocated

\* A held record is the view as it was at its revision.
SnapshotsArePast ==
    \A h \in Tasks :
       pc[h] \in Holding =>
          /\ snap[h].revision = Len(snap[h].state)
          /\ snap[h].revision <= Len(journal[req[h].view])
          /\ \A i \in 1 .. snap[h].revision :
                snap[h].state[i] = journal[req[h].view][i]

\* A task that is about to commit was let through for the record it holds.
ResolvedIsCovered ==
    \A h \in Tasks :
       pc[h] = "commit" =>
          LET cap == minted[req[h].token]
          IN  /\ cap # None
              /\ cap.view = req[h].view
              /\ Permits(cap.actor, req[h].actor)
              /\ Accepts(cap.stale, cap.revision, snap[h].revision)

IInv ==
    /\ TypeOK
    /\ EntriesAreMinted
    /\ UnallocatedIsEmpty
    /\ OpeningIsExclusive
    /\ IdleIsEmpty
    /\ RequestsAreWellFormed
    /\ SnapshotsArePast
    /\ ResolvedIsCovered
    /\ NoLostUpdate
    /\ RevisionCountsCommits
    /\ CommitsAreCovered
=============================================================================
