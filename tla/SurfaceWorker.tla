---------------------------- MODULE SurfaceWorker ----------------------------
(***************************************************************************)
(* The serial renderer of Telegram surfaces (src/surface.rs), the lanes of *)
(* the outbound scheduler it runs on, and the messages it leaves in the    *)
(* chat.                                                                   *)
(*                                                                         *)
(* A caller projects a revision onto a surface.  An editable surface (an   *)
(* inline or an ephemeral message) is edited in place: project.  A regular *)
(* message is replaced: replace_message sends a new message and deletes    *)
(* the old one, and the lane of the old surface moves to the new one.      *)
(*                                                                         *)
(* The scheduler and Telegram are not part of the repository.  What the    *)
(* code relies on is modelled here: a serial lane grants one job at a time *)
(* in the order of admission, a latest-wins job displaces the pending ones *)
(* of the same coalescing key but never one that was granted, a job whose  *)
(* future is dropped leaves the lane, and a request may fail before or     *)
(* after it took effect.  Both acquire calls enqueue when they are called, *)
(* as the comment in replace_message says.                                 *)
(***************************************************************************)
EXTENDS Integers, SequencesExt

CONSTANTS
    Calls,        \* concurrent calls of project and replace_message
    Editable,     \* inline and ephemeral surfaces
    MaxMessages,  \* bound on the messages sent
    MaxLanes,     \* bound on the lanes created
    MaxRevision,  \* bound on the revisions committed
    InOrder,      \* external: callers come one by one, each with the newest
                  \* revision
    None

ASSUME BoundsAssumption ==
    /\ MaxMessages \in Nat \ {0}
    /\ MaxLanes \in Nat
    /\ MaxRevision \in Nat
    /\ InOrder \in BOOLEAN
    /\ Editable \cap Nat = {}
    /\ None \notin Nat

\* Surface::Message, numbered in the order they were sent.
Messages == 1 .. MaxMessages
Surfaces == Editable \cup Messages
Lanes == 1 .. MaxLanes
Revision == 0 .. MaxRevision

VARIABLES
    lanes,      \* SurfaceWorker.lanes: the lane of each surface, or None
    laneCount,  \* lanes created; each has its own coalescing key
    pending,    \* external: the jobs waiting on each lane
    granted,    \* external: the job each lane is running, or None
    sent,       \* external: number of messages sent to the chat
    live,       \* external: messages that have not been deleted
    shown,      \* external: the revision each surface shows
    committed,  \* the newest revision of the view
    pc, call,   \* where each call stands, and its arguments and lane
    due         \* history: the revision last admitted to a surface, if it may
                \* still be expected to show

schedulerVars == <<pending, granted>>
chatVars == <<sent, live, shown>>
vars == <<lanes, laneCount, pending, granted, sent, live, shown, committed,
          pc, call, due>>

Job == [call : Calls, part : {"edit", "send", "delete"}]

Call == [surface : Surfaces, revision : Revision, lane : Lanes,
         replacement : Messages \cup {None}]

ASSUME NoneAssumption == None \notin Job /\ None \notin Call

Places == {"idle", "admit", "admitDelete", "edit", "send", "delete",
           "transfer"}

\* A lane serves one surface.
LanesAreOwn ==
    /\ \A s \in Surfaces : lanes[s] # None => lanes[s] <= laneCount
    /\ \A s, t \in Surfaces : lanes[s] # None /\ lanes[s] = lanes[t] => s = t

TypeOK ==
    /\ lanes \in [Surfaces -> Lanes \cup {None}]
    /\ laneCount \in 0 .. MaxLanes
    /\ LanesAreOwn
    /\ pending \in [Lanes -> Seq(Job)]
    /\ granted \in [Lanes -> Job \cup {None}]
    /\ sent \in Messages
    /\ live \subseteq 1 .. sent
    /\ shown \in [Surfaces -> Revision]
    /\ committed \in Revision
    /\ pc \in [Calls -> Places]
    /\ call \in [Calls -> Call \cup {None}]
    /\ due \in [Surfaces -> Revision \cup {None}]
    /\ \A c \in Calls : pc[c] = "idle" <=> call[c] = None

\* The view has been opened: its first message is in the chat.
Init ==
    /\ lanes = [s \in Surfaces |-> None]
    /\ laneCount = 0
    /\ pending = [l \in Lanes |-> << >>]
    /\ granted = [l \in Lanes |-> None]
    /\ sent = 1
    /\ live = {1}
    /\ shown = [s \in Surfaces |-> 0]
    /\ committed = 0
    /\ pc = [c \in Calls |-> "idle"]
    /\ call = [c \in Calls |-> None]
    /\ due = [s \in Surfaces |-> None]

-----------------------------------------------------------------------------
(* The scheduler. *)

IsLatestWins(job) == job.part # "delete"

\* Mutated form of AcquireLatestWins: pending renders are left in the lane and
\* the new one overtakes them.
AcquireLatestFirst(l, job) ==
    /\ pending' = [pending EXCEPT ![l] = <<job>> \o @]
    /\ UNCHANGED granted

\* OutboundLane::acquire_latest_wins.  One lane has one coalescing key, so that
\* at most one latest-wins job is pending there, and is displaced.
AcquireLatestWins(l, job) ==
    /\ pending' = [pending EXCEPT
                      ![l] = Append(RemoveFirstMatch(@, IsLatestWins), job)]
    /\ UNCHANGED granted

\* OutboundLane::acquire.
Acquire(l, job) ==
    /\ pending' = [pending EXCEPT ![l] = Append(@, job)]
    /\ UNCHANGED granted

Grant(l) ==
    /\ granted[l] = None
    /\ pending[l] # << >>
    /\ granted' = [granted EXCEPT ![l] = Head(pending[l])]
    /\ pending' = [pending EXCEPT ![l] = Tail(@)]
    /\ UNCHANGED <<lanes, laneCount, chatVars, committed, pc, call, due>>

\* The scheduler turns a pending job away (OutboundAcquireError).
TurnAway(l, i) ==
    /\ i \in 1 .. Len(pending[l])
    /\ pending' = [pending EXCEPT ![l] = RemoveAt(@, i)]
    /\ UNCHANGED <<granted, lanes, laneCount, chatVars, committed, pc, call,
                   due>>

\* The permits and the pending acquires of call c end with the call.  All that
\* can still be pending is its delete.
Release(c) ==
    LET l == call[c].lane
    IN  /\ pending' = [pending EXCEPT
                          ![l] = RemoveFirst(@, [call |-> c, part |-> "delete"])]
        /\ granted' = [granted EXCEPT ![l] =
                          IF @ # None /\ @.call = c THEN None ELSE @]

\* Mutated form of Drop: the acquire that is still pending is forgotten, not
\* dropped.
DropPermitOnly(c) ==
    /\ granted' = [granted EXCEPT ![call[c].lane] =
                      IF @ = [call |-> c, part |-> "send"] THEN None ELSE @]
    /\ UNCHANGED pending

\* What an early return of call c drops.
Drop(c) == Release(c)

Running(c, part) == granted[call[c].lane] = [call |-> c, part |-> part]

\* The acquire of call c ends with an error: its job is gone from the lane.
Refused(c, part) ==
    /\ ~Running(c, part)
    /\ [call |-> c, part |-> part] \notin ToSet(pending[call[c].lane])

-----------------------------------------------------------------------------
(* Admission. *)

\* Mutated form of LaneOf: every call gets a lane of its own.
LaneAlwaysFresh(s) == laneCount + 1

\* SurfaceWorker::lane_for: the lane of the surface, created on first use.
LaneOf(s) == IF lanes[s] = None THEN laneCount + 1 ELSE lanes[s]

\* What is assumed of the callers; the worker does not test it.  They render a
\* revision that is committed by then.  With InOrder it is the newest one, and
\* no other call is on its way to a lane.
MayEnter(r) ==
    /\ r <= committed
    /\ InOrder => r = committed /\ \A d \in Calls : pc[d] # "admit"

\* A call of project (s editable) or replace_message (s a message), up to the
\* lane it clones out of the map.
Enter(c, s, r) ==
    /\ pc[c] = "idle"
    /\ MayEnter(r)
    /\ s \in Messages => s <= sent
    /\ LaneOf(s) \in Lanes
    /\ lanes' = [lanes EXCEPT ![s] = LaneOf(s)]
    /\ laneCount' = IF LaneOf(s) > laneCount THEN LaneOf(s) ELSE laneCount
    /\ call' = [call EXCEPT ![c] =
                   [surface |-> s, revision |-> r, lane |-> LaneOf(s),
                    replacement |-> None]]
    /\ pc' = [pc EXCEPT ![c] = "admit"]
    /\ UNCHANGED <<schedulerVars, chatVars, committed, due>>

AdmitEdit(c) ==
    /\ pc[c] = "admit"
    /\ call[c].surface \in Editable
    /\ AcquireLatestWins(call[c].lane, [call |-> c, part |-> "edit"])
    /\ due' = [due EXCEPT ![call[c].surface] = call[c].revision]
    /\ pc' = [pc EXCEPT ![c] = "edit"]
    /\ UNCHANGED <<lanes, laneCount, chatVars, committed, call>>

AdmitSend(c) ==
    /\ pc[c] = "admit"
    /\ call[c].surface \in Messages
    /\ AcquireLatestWins(call[c].lane, [call |-> c, part |-> "send"])
    /\ pc' = [pc EXCEPT ![c] = "admitDelete"]
    /\ UNCHANGED <<lanes, laneCount, chatVars, committed, call, due>>

AdmitDelete(c) ==
    /\ pc[c] = "admitDelete"
    /\ Acquire(call[c].lane, [call |-> c, part |-> "delete"])
    /\ pc' = [pc EXCEPT ![c] = "send"]
    /\ UNCHANGED <<lanes, laneCount, chatVars, committed, call, due>>

-----------------------------------------------------------------------------
(* project, once its job is granted. *)

Return(c) ==
    /\ pc' = [pc EXCEPT ![c] = "idle"]
    /\ call' = [call EXCEPT ![c] = None]

\* An error that ends call c: its surface need not show its revision any more.
Excuse(c) ==
    due' = IF due[call[c].surface] = call[c].revision
           THEN [due EXCEPT ![call[c].surface] = None]
           ELSE due

\* The request succeeds, or fails after Telegram has applied it.
EditApplies(c) ==
    /\ pc[c] = "edit"
    /\ Running(c, "edit")
    /\ shown' = [shown EXCEPT ![call[c].surface] = call[c].revision]
    /\ Release(c)
    /\ Return(c)
    /\ UNCHANGED <<lanes, laneCount, sent, live, committed, due>>

\* The request fails (with or without a retry_after, which only delays the
\* lane) or is refused, and nothing repeats it.
EditFails(c) ==
    /\ pc[c] = "edit"
    /\ Running(c, "edit")
    /\ Release(c)
    /\ Return(c)
    /\ Excuse(c)
    /\ UNCHANGED <<lanes, laneCount, chatVars, committed>>

\* Superseded, or turned away by the scheduler: in either case
\* ProjectionError::Queue.  Only a later admission makes up for it.
EditRefused(c) ==
    /\ pc[c] = "edit"
    /\ Refused(c, "edit")
    /\ Return(c)
    /\ Excuse(c)
    /\ UNCHANGED <<schedulerVars, lanes, laneCount, chatVars, committed>>

-----------------------------------------------------------------------------
(* replace_message, once its send is granted. *)

\* The new message appears in the chat.
Appear(c) ==
    /\ sent < MaxMessages
    /\ sent' = sent + 1
    /\ live' = live \cup {sent + 1}
    /\ shown' = [shown EXCEPT ![sent + 1] = call[c].revision]

\* The permit of the send is completed, the delete stays in the lane.
SendSucceeds(c) ==
    /\ pc[c] = "send"
    /\ Running(c, "send")
    /\ Appear(c)
    /\ granted' = [granted EXCEPT ![call[c].lane] = None]
    /\ call' = [call EXCEPT ![c].replacement = sent + 1]
    /\ pc' = [pc EXCEPT ![c] = "delete"]
    /\ UNCHANGED <<pending, lanes, laneCount, committed, due>>

\* Mutated form of SendFails: the cleanup goes on without a replacement.
SendFailsCleansUp(c) ==
    /\ pc[c] = "send"
    /\ Running(c, "send")
    /\ Drop(c)
    /\ Return(c)
    /\ live' = live \ {call[c].surface}
    /\ UNCHANGED <<lanes, laneCount, sent, shown, committed, due>>

\* The request fails, perhaps after Telegram has sent the message, whose id the
\* caller then never learns.  The pending delete is dropped.
SendFails(c) ==
    /\ pc[c] = "send"
    /\ Running(c, "send")
    /\ Drop(c)
    /\ Return(c)
    /\ Appear(c) \/ UNCHANGED chatVars
    /\ UNCHANGED <<lanes, laneCount, committed, due>>

SendRefused(c) ==
    /\ pc[c] = "send"
    /\ Refused(c, "send")
    /\ Drop(c)
    /\ Return(c)
    /\ UNCHANGED <<lanes, laneCount, chatVars, committed, due>>

\* Mutated form of TransferLane: the entry is copied, not moved.
TransferLaneCopies(old, new) ==
    lanes' = IF lanes[old] = None THEN lanes
             ELSE [lanes EXCEPT ![new] = lanes[old]]

\* SurfaceWorker::transfer_lane.
TransferLane(old, new) ==
    lanes' = IF lanes[old] = None THEN lanes
             ELSE [lanes EXCEPT ![old] = None, ![new] = lanes[old]]

\* The old message is gone, or the request fails; the permit is completed in
\* either case.
DeleteEnds(c) ==
    /\ pc[c] = "delete"
    /\ Running(c, "delete")
    /\ \/ live' = live \ {call[c].surface}
       \/ UNCHANGED live
    /\ Release(c)
    /\ pc' = [pc EXCEPT ![c] = "transfer"]
    /\ UNCHANGED <<lanes, laneCount, sent, shown, committed, call, due>>

\* Only then does the lane move.  The next job may run in it already, and a
\* new call may have found it, or made one, under the old surface.
Transfer(c) ==
    /\ pc[c] = "transfer"
    /\ TransferLane(call[c].surface, call[c].replacement)
    /\ Return(c)
    /\ UNCHANGED <<laneCount, schedulerVars, chatVars, committed, due>>

\* The delete is turned away: replace_message returns before transfer_lane.
DeleteRefused(c) ==
    /\ pc[c] = "delete"
    /\ Refused(c, "delete")
    /\ Return(c)
    /\ UNCHANGED <<schedulerVars, lanes, laneCount, chatVars, committed, due>>

-----------------------------------------------------------------------------

\* The view commits a new revision.
Commit ==
    /\ committed < MaxRevision
    /\ committed' = committed + 1
    /\ UNCHANGED <<lanes, laneCount, schedulerVars, chatVars, pc, call, due>>

Step(c) ==
    \/ AdmitEdit(c) \/ EditApplies(c) \/ EditFails(c) \/ EditRefused(c)
    \/ AdmitSend(c) \/ AdmitDelete(c)
    \/ SendSucceeds(c) \/ SendFails(c) \/ SendRefused(c)
    \/ DeleteEnds(c) \/ Transfer(c) \/ DeleteRefused(c)

Next ==
    \/ Commit
    \/ \E c \in Calls, s \in Surfaces, r \in Revision : Enter(c, s, r)
    \/ \E c \in Calls : Step(c)
    \/ \E l \in Lanes : Grant(l)
    \/ \E l \in Lanes : \E i \in 1 .. Len(pending[l]) : TurnAway(l, i)

Spec == Init /\ [][Next]_vars

\* A polled future goes on, a lane with work grants it, a request ends.
FairSpec ==
    /\ Spec
    /\ \A c \in Calls : WF_vars(Step(c))
    /\ \A l \in Lanes : WF_vars(Grant(l))

-----------------------------------------------------------------------------
(* What the callers see of it.  A call makes no more requests once its lane   *)
(* is all that is left to do.                                                *)

CallPhase(c) ==
    CASE pc[c] = "admitDelete" -> "send"
      [] pc[c] = "admit" /\ call[c].surface \in Messages -> "send"
      [] pc[c] = "transfer" -> "idle"
      [] OTHER -> pc[c]

CallWork(c) ==
    IF pc[c] \in {"idle", "transfer"} THEN None
    ELSE [surface |-> call[c].surface, revision |-> call[c].revision,
          replacement |-> call[c].replacement]

\* The calls in lane l, the one that runs first.
CallsIn(l) ==
    LET running == IF granted[l] = None THEN << >> ELSE <<granted[l]>>
        jobs == running \o pending[l]
    IN  [i \in DOMAIN jobs |-> jobs[i].call]

PhaseMap == [c \in Calls |-> CallPhase(c)]
WorkMap == [c \in Calls |-> CallWork(c)]
QueueMap == [s \in Editable |->
                IF lanes[s] = None THEN << >> ELSE CallsIn(lanes[s])]

Promise ==
    INSTANCE Projections
    WITH phase <- PhaseMap, work <- WorkMap, queue <- QueueMap

-----------------------------------------------------------------------------
(* Properties. *)

\* The last board that was sent is never deleted: whatever fails, is
\* superseded, or is repeated on a stale surface, the chat keeps a board, and
\* it is the newest (surface.rs: "deleted only after the replacement has been
\* admitted and sent").
NewestBoardLives == sent \in live

\* The jobs a lane is running for call c, if any.
InFlight(c) ==
    /\ pc[c] # "idle"
    /\ \E part \in {"edit", "send", "delete"} : Running(c, part)

\* Two requests are never in flight for the same editable surface (surface.rs:
\* "mutations targeting the same surface must be serialized").
EditsAreSerial ==
    \A c, d \in Calls :
       /\ c # d
       /\ InFlight(c) /\ InFlight(d)
       /\ call[c].surface \in Editable
       => call[c].surface # call[d].surface

\* Latest wins: when no call is left for an editable surface, it shows the
\* revision that was admitted last, unless that very call failed.
SettledShowsLast ==
    \A s \in Editable :
       /\ \A c \in Calls : pc[c] # "idle" => call[c].surface # s
       /\ due[s] # None
       => shown[s] = due[s]

\* A surface never shows an older revision after a newer one, PROVIDED that the
\* callers come in order (InOrder): the lanes, the coalescing and the failures
\* then keep that order.  docs/ARCHITECTURE.md has it without the proviso ("the
\* final visible projection must never end at R41 or R42 after R43 has
\* successfully projected"), but the worker compares no revisions.
NeverBackwards == [][\A s \in Editable : shown'[s] >= shown[s]]_vars

\* The worker and its lanes keep what Projections promises to their callers:
\* every step of theirs is a step of that module, or none (surface.rs: project,
\* replace_message).
ImplementsProjections == Promise!Spec

\* Every call returns: a lane is never held by a call that is over or that
\* waits behind itself.
CallsReturn == \A c \in Calls : pc[c] # "idle" ~> pc[c] = "idle"

\* Two requests are never in flight for the same surface, message or not
\* (surface.rs: "Each surface gets one scheduler lane").
MutationsAreSerial ==
    \A c, d \in Calls :
       c # d /\ InFlight(c) /\ InFlight(d) => call[c].surface # call[d].surface
=============================================================================
