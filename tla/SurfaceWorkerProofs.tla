------------------------ MODULE SurfaceWorkerProofs ------------------------
(***************************************************************************)
(* Theorems about the surface worker and its lanes, for any calls, any     *)
(* editable surfaces and any bounds on messages, lanes and revisions.      *)
(*                                                                         *)
(* IInv is the inductive invariant.  Its heart is JobsAreOwned, which      *)
(* relates the scheduler to the calls: every job that waits or runs in a   *)
(* lane is the job of a call that is waiting for it, on that lane.         *)
(* DeletesComeLast, about the order in a lane, makes the lanes free of     *)
(* deadlock (LanesKeepMoving); the last section shows that the worker      *)
(* implements Projections.                                                 *)
(***************************************************************************)
EXTENDS SurfaceWorker, SequenceLemmas

-----------------------------------------------------------------------------
(* The inductive invariant. *)

\* A call that has not returned.
Busy(c) == pc[c] # "idle"

\* A call holds the lane of an editable surface if, and only if, it is a call
\* on that surface.  (Of messages this does not hold: see MutationsAreSerial.)
CallsKeepTheirLane ==
    \A c \in Calls :
       Busy(c) => /\ call[c].lane <= laneCount
                  /\ \A e \in Editable :
                        lanes[e] = call[c].lane <=> call[c].surface = e

\* project works on an editable surface, replace_message on a message in the
\* chat, and what it deletes is older than what it has sent.
PlacesFit ==
    \A c \in Calls :
       /\ pc[c] = "edit" => call[c].surface \in Editable
       /\ pc[c] \in {"admitDelete", "send", "delete", "transfer"} =>
             call[c].surface \in Messages
       /\ Busy(c) /\ call[c].surface \in Messages => call[c].surface <= sent
       /\ pc[c] \in {"delete", "transfer"} =>
             /\ call[c].replacement \in Messages
             /\ call[c].surface < call[c].replacement
             /\ call[c].replacement <= sent

\* The jobs that wait or run in a lane.
JobsOf(l) == ToSet(pending[l]) \cup ({granted[l]} \ {None})

\* The places of a call that is waiting for, or running, one of its jobs.
PlacesOf(part) ==
    {p \in Places : \/ part = "edit" /\ p = "edit"
                    \/ part = "send" /\ p \in {"admitDelete", "send"}
                    \/ part = "delete" /\ p \in {"send", "delete"}}

Owned(l, job) ==
    /\ pc[job.call] \in PlacesOf(job.part)
    /\ call[job.call].lane = l

JobsAreOwned == \A l \in Lanes : \A job \in JobsOf(l) : Owned(l, job)

\* No job is in a lane twice.
JobsAreSingle ==
    \A l \in Lanes : IsInjective(pending[l]) /\ granted[l] \notin ToSet(pending[l])

\* A latest-wins job displaces the one before it, so that there is only one.
OneRenderWaits ==
    \A l \in Lanes : \A i, j \in ToSet(pending[l]) :
       IsLatestWins(i) /\ IsLatestWins(j) => i = j

QueueOK == JobsAreOwned /\ JobsAreSingle /\ OneRenderWaits

IInv ==
    /\ TypeOK
    /\ LanesAreOwn
    /\ CallsKeepTheirLane
    /\ PlacesFit
    /\ QueueOK
    /\ NewestBoardLives

-----------------------------------------------------------------------------
(* What the invariant says of one call, one lane, one surface. *)

\* A busy call has its arguments.
LEMMA BusyCall ==
    ASSUME TypeOK, NEW c \in Calls, Busy(c)
    PROVE  /\ call[c] \in Call
           /\ call[c].surface \in Surfaces
           /\ call[c].revision \in Revision
           /\ call[c].lane \in Lanes
  BY NoneAssumption DEF TypeOK, Busy, Call

\* The jobs of a lane are typed.
LEMMA LaneJobs ==
    ASSUME TypeOK, NEW l \in Lanes
    PROVE  /\ pending[l] \in Seq(Job)
           /\ ToSet(pending[l]) \subseteq Job
           /\ JobsOf(l) \subseteq Job
           /\ granted[l] \in Job \cup {None}
<1>1. pending[l] \in Seq(Job) /\ granted[l] \in Job \cup {None}
  BY DEF TypeOK
<1> QED
  BY <1>1, ToSetMembers DEF JobsOf

\* A running job is a job of its lane.
LEMMA RunningJob ==
    ASSUME TypeOK, NEW c \in Calls, NEW part \in {"edit", "send", "delete"},
           Running(c, part)
    PROVE  /\ [call |-> c, part |-> part] \in Job
           /\ [call |-> c, part |-> part] \in JobsOf(call[c].lane)
           /\ granted[call[c].lane] # None
  BY NoneAssumption DEF Running, Job, JobsOf

\* Messages are numbers, editable surfaces are not.
LEMMA SurfaceKinds ==
    /\ Messages \subseteq Nat
    /\ Editable \cap Messages = {}
    /\ None \notin Lanes /\ Lanes \subseteq Nat
    /\ None \notin Revision /\ Revision \subseteq Nat
  BY BoundsAssumption DEF Messages, Lanes, Revision

-----------------------------------------------------------------------------
(* Lanes and surfaces. *)

\* A call that goes on keeps its surface and its lane.
LEMMA SameCall ==
    ASSUME TypeOK, NEW c \in Calls, Step(c), NEW d \in Calls, Busy(d)'
    PROVE  /\ Busy(d)
           /\ call'[d].surface = call[d].surface
           /\ call'[d].lane = call[d].lane
           /\ call'[d].revision = call[d].revision
<1> USE DEF TypeOK, Busy
<1>1. CASE Return(c) /\ pc[c] # "idle"
  BY <1>1 DEF Return
<1>2. ASSUME NEW to \in Places, pc' = [pc EXCEPT ![c] = to], pc[c] # "idle",
             call' = call
      PROVE  /\ Busy(d)
             /\ call'[d] = call[d]
  BY <1>2
<1>3. CASE SendSucceeds(c)
  <2>1. call[c] \in Call
    BY <1>3, NoneAssumption DEF SendSucceeds
  <2> QED
    BY <1>3, <2>1 DEF SendSucceeds, Call
<1>4. CASE AdmitEdit(c) \/ AdmitSend(c) \/ AdmitDelete(c) \/ DeleteEnds(c)
  BY <1>2, <1>4 DEF AdmitEdit, AdmitSend, AdmitDelete, DeleteEnds, Places
<1> QED
  BY <1>1, <1>3, <1>4 DEF Step, EditApplies, EditFails, EditRefused, SendFails,
     SendRefused, Transfer, DeleteRefused

\* A lane is created for a surface that has none, and moves from a message to
\* its replacement; an editable surface keeps its lane, and its calls with it
\* (surface.rs: lane_for, transfer_lane).
LEMMA LaneStep == IInv /\ [Next]_vars => LanesAreOwn' /\ CallsKeepTheirLane'
<1> SUFFICES ASSUME IInv, [Next]_vars PROVE LanesAreOwn' /\ CallsKeepTheirLane'
  OBVIOUS
<1> USE SurfaceKinds DEF Surfaces
<1>1. /\ TypeOK /\ LanesAreOwn /\ CallsKeepTheirLane /\ PlacesFit
      /\ lanes \in [Surfaces -> Lanes \cup {None}]
      /\ laneCount \in 0 .. MaxLanes /\ laneCount \in Int
  BY DEF IInv, TypeOK
<1>2. UNCHANGED <<lanes, laneCount>> => LanesAreOwn'
  BY <1>1 DEF LanesAreOwn
<1>3. ASSUME laneCount' = laneCount,
             \A e \in Editable : lanes'[e] = lanes[e],
             \A d \in Calls : Busy(d)' => /\ Busy(d)
                                         /\ call'[d].surface = call[d].surface
                                         /\ call'[d].lane = call[d].lane
      PROVE  CallsKeepTheirLane'
  BY <1>1, <1>3 DEF CallsKeepTheirLane
<1>4. ASSUME NEW c \in Calls, NEW s \in Surfaces, NEW r \in Revision, Enter(c, s, r)
      PROVE  LanesAreOwn' /\ CallsKeepTheirLane'
  <2>1. /\ lanes' = [lanes EXCEPT ![s] = LaneOf(s)]
        /\ LaneOf(s) \in Lanes /\ LaneOf(s) \in Nat
        /\ laneCount' = IF LaneOf(s) > laneCount THEN LaneOf(s) ELSE laneCount
    BY <1>4 DEF Enter
  <2>2. CASE lanes[s] # None
    <3>1. LaneOf(s) = lanes[s] /\ lanes' = lanes /\ laneCount' = laneCount
      BY <1>1, <2>1, <2>2 DEF LaneOf, LanesAreOwn
    <3>2. LanesAreOwn'
      BY <1>2, <3>1
    <3>3. \A e \in Editable : lanes[e] = lanes[s] <=> e = s
      BY <1>1, <2>2 DEF LanesAreOwn
    <3>4. \A d \in Calls : Busy(d)' => d = c \/ (Busy(d) /\ call'[d] = call[d])
      BY <1>1, <1>4 DEF Enter, Busy, TypeOK
    <3>5. call'[c].surface = s /\ call'[c].lane = lanes[s]
      BY <1>1, <1>4, <3>1 DEF Enter, TypeOK
    <3> QED
      BY <1>1, <2>2, <3>1, <3>2, <3>3, <3>4, <3>5
      DEF CallsKeepTheirLane, LanesAreOwn
  <2>3. CASE lanes[s] = None
    <3>1. LaneOf(s) = laneCount + 1 /\ laneCount' = laneCount + 1
      BY <1>1, <2>1, <2>3 DEF LaneOf
    <3>2. \A u \in Surfaces : lanes'[u] = IF u = s THEN laneCount + 1 ELSE lanes[u]
      BY <1>1, <2>1, <3>1
    <3>3. \A u \in Surfaces : lanes[u] # None => lanes[u] \in Nat /\ lanes[u] <= laneCount
      BY <1>1 DEF LanesAreOwn
    <3>4. LanesAreOwn'
      BY <1>1, <2>1, <3>1, <3>2, <3>3 DEF LanesAreOwn
    <3>5. \A d \in Calls : Busy(d)' => d = c \/ (Busy(d) /\ call'[d] = call[d])
      BY <1>1, <1>4 DEF Enter, Busy, TypeOK
    <3>6. call'[c].surface = s /\ call'[c].lane = laneCount + 1
      BY <1>1, <1>4, <3>1 DEF Enter, TypeOK
    <3>7. \A e \in Editable : lanes'[e] = laneCount + 1 <=> e = s
      <4>1. laneCount + 1 # None
        BY <2>1, <3>1
      <4>2. \A e \in Editable : lanes[e] # laneCount + 1
        BY <1>1, <3>3, <4>1
      <4> QED
        BY <3>2, <4>2
    <3>8. ASSUME NEW d \in Calls, Busy(d), call'[d] = call[d]
          PROVE  /\ call'[d].lane <= laneCount'
                 /\ \A e \in Editable :
                       lanes'[e] = call'[d].lane <=> call'[d].surface = e
      <4>1. /\ call[d].lane \in Nat /\ call[d].lane <= laneCount
            /\ \A e \in Editable : lanes[e] = call[d].lane <=> call[d].surface = e
        BY <1>1, <3>8, BusyCall DEF CallsKeepTheirLane
      <4>2. /\ call[d].lane <= laneCount + 1 /\ call[d].lane # laneCount + 1
            /\ call[d].lane # None
        BY <1>1, <4>1, BoundsAssumption
      <4>3. s \in Editable => call[d].surface # s
        BY <2>3, <4>1, <4>2
      <4> QED
        BY <3>1, <3>2, <3>8, <4>1, <4>2, <4>3
    <3> QED
      BY <1>1, <3>1, <3>4, <3>5, <3>6, <3>7, <3>8 DEF CallsKeepTheirLane
  <2> QED
    BY <2>2, <2>3
<1>5. ASSUME NEW c \in Calls, Transfer(c)
      PROVE  LanesAreOwn' /\ CallsKeepTheirLane'
  <2> DEFINE old == call[c].surface
             new == call[c].replacement
  <2>1. old \in Messages /\ new \in Messages /\ old # new
    <3>1. old \in Messages /\ new \in Messages /\ old < new
      BY <1>1, <1>5 DEF Transfer, PlacesFit
    <3>2. old \in Nat /\ new \in Nat
      BY <3>1
    <3> QED
      BY <3>1, <3>2
  <2>2. TransferLane(old, new) /\ laneCount' = laneCount
    BY <1>5 DEF Transfer
  <2> HIDE DEF old, new
  <2>3. \A e \in Editable : lanes'[e] = lanes[e]
    BY <1>1, <2>1, <2>2 DEF TransferLane
  <2>4. LanesAreOwn'
    <3>1. \A s \in Surfaces :
             \/ lanes'[s] = lanes[s] /\ (lanes[old] # None => s # old /\ s # new)
             \/ lanes'[s] = None
             \/ s = new /\ lanes[old] # None /\ lanes'[s] = lanes[old]
      BY <1>1, <2>1, <2>2 DEF TransferLane
    <3>2. \A s \in Surfaces : lanes'[s] # None => lanes'[s] <= laneCount
      BY <1>1, <2>1, <3>1 DEF LanesAreOwn
    <3>3. \A s, u \in Surfaces : lanes'[s] # None /\ lanes'[s] = lanes'[u] => s = u
      BY <1>1, <2>1, <3>1 DEF LanesAreOwn
    <3> QED
      BY <2>2, <3>2, <3>3 DEF LanesAreOwn
  <2>5. Step(c)
    BY <1>5 DEF Step
  <2> QED
    BY <1>1, <1>3, <2>2, <2>3, <2>4, <2>5, SameCall
<1>6. ASSUME NEW c \in Calls, Step(c), ~Transfer(c)
      PROVE  LanesAreOwn' /\ CallsKeepTheirLane'
  <2>1. UNCHANGED <<lanes, laneCount>>
    BY <1>6 DEF Step, AdmitEdit, AdmitSend, AdmitDelete, EditApplies, EditFails,
       EditRefused, SendSucceeds, SendFails, SendRefused, DeleteEnds,
       DeleteRefused
  <2> QED
    BY <1>1, <1>2, <1>3, <1>6, <2>1, SameCall
<1>7. ASSUME UNCHANGED <<lanes, laneCount, pc, call>>
      PROVE  LanesAreOwn' /\ CallsKeepTheirLane'
  BY <1>2, <1>3, <1>7 DEF Busy
<1> QED
  BY <1>4, <1>5, <1>6, <1>7 DEF Next, Commit, Grant, TurnAway, vars

-----------------------------------------------------------------------------
(* Types. *)

\* The two ways in which a job leaves the middle of a lane.
LEMMA DisplacedLane ==
    ASSUME NEW s \in Seq(Job)
    PROVE  /\ RemoveFirstMatch(s, IsLatestWins) \in Seq(Job)
           /\ ToSet(RemoveFirstMatch(s, IsLatestWins)) \subseteq ToSet(s)
           /\ IsInjective(s)
              => /\ IsInjective(RemoveFirstMatch(s, IsLatestWins))
                 /\ (\A i, j \in ToSet(s) :
                        IsLatestWins(i) /\ IsLatestWins(j) => i = j)
                    => \A i \in ToSet(RemoveFirstMatch(s, IsLatestWins)) :
                          ~IsLatestWins(i)
<1> DEFINE I == {i \in 1 .. Len(s) : IsLatestWins(s[i])}
<1>1. ToSet(s) = {s[i] : i \in 1 .. Len(s)}
  BY ToSetMembers
<1>2. CASE I = {}
  <2>1. RemoveFirstMatch(s, IsLatestWins) = s
    BY <1>2 DEF RemoveFirstMatch
  <2> QED
    BY <1>1, <1>2, <2>1
<1>3. CASE I # {}
  <2>1. I \in SUBSET Nat
    OBVIOUS
  <2>2. Min(I) \in I
    BY <1>3, <2>1, MinIsLeast
  <2>3. RemoveFirstMatch(s, IsLatestWins) = RemoveAt(s, Min(I))
    BY <1>3 DEF RemoveFirstMatch, SelectInSeq
  <2> DEFINE r == RemoveAt(s, Min(I))
  <2>4. /\ r \in Seq(Job)
        /\ ToSet(r) \subseteq ToSet(s)
        /\ IsInjective(s) => IsInjective(r) /\ s[Min(I)] \notin ToSet(r)
    BY <2>2, ToSetRemoveAt
  <2>5. s[Min(I)] \in ToSet(s) /\ IsLatestWins(s[Min(I)])
    BY <1>1, <2>2
  <2> HIDE DEF r, I
  <2>6. ASSUME IsInjective(s),
               \A i, j \in ToSet(s) : IsLatestWins(i) /\ IsLatestWins(j) => i = j,
               NEW i \in ToSet(r)
        PROVE  ~IsLatestWins(i)
    BY <2>4, <2>5, <2>6
  <2> QED
    BY <2>3, <2>4, <2>6 DEF r
<1> QED
  BY <1>2, <1>3

\* The lanes keep their type whatever the scheduler and the calls do to them.
LEMMA SchedulerTypes ==
    ASSUME TypeOK
    PROVE  /\ \A l \in Lanes, job \in Job :
                 AcquireLatestWins(l, job) \/ Acquire(l, job) =>
                    /\ pending' \in [Lanes -> Seq(Job)]
                    /\ granted' \in [Lanes -> Job \cup {None}]
           /\ \A c \in Calls :
                 Busy(c) /\ Release(c) =>
                    /\ pending' \in [Lanes -> Seq(Job)]
                    /\ granted' \in [Lanes -> Job \cup {None}]
           /\ \A l \in Lanes :
                 Grant(l) \/ (\E i \in 1 .. Len(pending[l]) : TurnAway(l, i)) =>
                    /\ pending' \in [Lanes -> Seq(Job)]
                    /\ granted' \in [Lanes -> Job \cup {None}]
<1>1. /\ pending \in [Lanes -> Seq(Job)]
      /\ granted \in [Lanes -> Job \cup {None}]
  BY DEF TypeOK
<1>2. ASSUME NEW l \in Lanes, NEW q \in Seq(Job),
             pending' = [pending EXCEPT ![l] = q]
      PROVE  pending' \in [Lanes -> Seq(Job)]
  BY <1>1, <1>2
<1>3. ASSUME NEW l \in Lanes, NEW job \in Job,
             AcquireLatestWins(l, job) \/ Acquire(l, job)
      PROVE  pending' \in [Lanes -> Seq(Job)] /\ granted' = granted
  <2>1. RemoveFirstMatch(pending[l], IsLatestWins) \in Seq(Job)
    BY <1>1, DisplacedLane
  <2>2. /\ Append(RemoveFirstMatch(pending[l], IsLatestWins), job) \in Seq(Job)
        /\ Append(pending[l], job) \in Seq(Job)
    BY <1>1, <2>1, AppendProperties
  <2> QED
    BY <1>2, <1>3, <2>2 DEF AcquireLatestWins, Acquire
<1>4. ASSUME NEW c \in Calls, Busy(c), Release(c)
      PROVE  /\ pending' \in [Lanes -> Seq(Job)]
             /\ granted' \in [Lanes -> Job \cup {None}]
  <2>1. call[c].lane \in Lanes
    BY <1>4, BusyCall
  <2>2. RemoveFirst(pending[call[c].lane], [call |-> c, part |-> "delete"])
           \in Seq(Job)
    BY <1>1, <2>1, ToSetRemoveFirst
  <2> QED
    BY <1>1, <1>2, <1>4, <2>1, <2>2 DEF Release
<1>5. ASSUME NEW l \in Lanes, Grant(l)
      PROVE  /\ pending' \in [Lanes -> Seq(Job)]
             /\ granted' \in [Lanes -> Job \cup {None}]
  <2>1. Tail(pending[l]) \in Seq(Job) /\ Head(pending[l]) \in Job
    BY <1>1, <1>5, HeadTailProperties DEF Grant
  <2> QED
    BY <1>1, <1>2, <1>5, <2>1 DEF Grant
<1>6. ASSUME NEW l \in Lanes, NEW i \in 1 .. Len(pending[l]), TurnAway(l, i)
      PROVE  /\ pending' \in [Lanes -> Seq(Job)]
             /\ granted' \in [Lanes -> Job \cup {None}]
  <2>1. RemoveAt(pending[l], i) \in Seq(Job)
    BY <1>1, RemoveAtProperties
  <2> QED
    BY <1>1, <1>2, <1>6, <2>1 DEF TurnAway
<1> QED
  BY <1>1, <1>3, <1>4, <1>5, <1>6

\* No call, no grant and no commit stores a value of another type; the bounds
\* are kept by the guards.
LEMMA TypeStep == IInv /\ [Next]_vars => TypeOK'
<1> SUFFICES ASSUME IInv, [Next]_vars PROVE TypeOK'
  OBVIOUS
<1> DEFINE SchedulerOK == /\ pending \in [Lanes -> Seq(Job)]
                          /\ granted \in [Lanes -> Job \cup {None}]
           LanesOK == /\ lanes \in [Surfaces -> Lanes \cup {None}]
                      /\ laneCount \in 0 .. MaxLanes
           ChatOK == /\ sent \in Messages
                     /\ live \subseteq 1 .. sent
                     /\ shown \in [Surfaces -> Revision]
           CallsOK == /\ pc \in [Calls -> Places]
                      /\ call \in [Calls -> Call \cup {None}]
                      /\ \A c \in Calls : pc[c] = "idle" <=> call[c] = None
           RestOK == /\ committed \in Revision
                     /\ due \in [Surfaces -> Revision \cup {None}]
<1>1. TypeOK /\ SchedulerOK /\ LanesOK /\ ChatOK /\ CallsOK /\ RestOK
  BY DEF IInv, TypeOK
<1>2. ASSUME SchedulerOK', LanesOK', ChatOK', CallsOK', RestOK' PROVE TypeOK'
  BY <1>2, LaneStep DEF TypeOK
<1>3. ASSUME NEW c \in Calls
      PROVE  Return(c) => CallsOK'
  BY <1>1 DEF Return, Places
<1>4. ASSUME NEW c \in Calls, Busy(c) PROVE Excuse(c) => due' \in [Surfaces -> Revision \cup {None}]
  BY <1>1, <1>4, BusyCall DEF Excuse
<1>5. /\ UNCHANGED schedulerVars => SchedulerOK'
      /\ UNCHANGED <<lanes, laneCount>> => LanesOK'
      /\ UNCHANGED chatVars => ChatOK'
      /\ UNCHANGED <<pc, call>> => CallsOK'
      /\ UNCHANGED <<committed, due>> => RestOK'
  BY <1>1 DEF schedulerVars, chatVars
<1>6. ASSUME NEW c \in Calls, Busy(c), Appear(c) PROVE ChatOK'
  <2>1. sent + 1 \in Messages /\ sent \in Nat /\ sent + 1 \in 1 .. sent + 1
    BY <1>1, <1>6, BoundsAssumption DEF Appear, Messages
  <2>2. 1 .. sent \subseteq 1 .. sent + 1
    BY <2>1
  <2> QED
    BY <1>1, <1>6, <2>1, <2>2, BusyCall DEF Appear, Surfaces
<1>7. ASSUME NEW c \in Calls, NEW to \in Places \ {"idle"}, Busy(c),
             pc' = [pc EXCEPT ![c] = to], call' = call
      PROVE  CallsOK'
  BY <1>1, <1>7 DEF Busy
<1>8. CASE Commit
  <2>1. committed + 1 \in Revision
    BY <1>1, <1>8, BoundsAssumption DEF Commit, Revision
  <2> QED
    BY <1>1, <1>2, <1>5, <1>8, <2>1 DEF Commit
<1>9. ASSUME NEW c \in Calls, NEW s \in Surfaces, NEW r \in Revision, Enter(c, s, r)
      PROVE  TypeOK'
  <2>1. LaneOf(s) \in Lanes /\ LaneOf(s) \in 0 .. MaxLanes
    BY <1>9, BoundsAssumption DEF Enter, Lanes
  <2>2. [surface |-> s, revision |-> r, lane |-> LaneOf(s), replacement |-> None]
           \in Call
    BY <2>1 DEF Call
  <2>3. CallsOK'
    BY <1>1, <1>9, <2>2, NoneAssumption DEF Enter, Places
  <2>4. LanesOK'
    BY <1>1, <1>9, <2>1 DEF Enter
  <2> QED
    BY <1>2, <1>5, <1>9, <2>3, <2>4 DEF Enter
<1>10. ASSUME NEW c \in Calls, AdmitEdit(c) PROVE TypeOK'
  <2>1. Busy(c) /\ [call |-> c, part |-> "edit"] \in Job
    BY <1>10 DEF AdmitEdit, Busy, Job
  <2>2. SchedulerOK'
    BY <1>1, <1>10, <2>1, BusyCall, SchedulerTypes DEF AdmitEdit
  <2>3. RestOK'
    BY <1>1, <1>10, <2>1, BusyCall DEF AdmitEdit
  <2> QED
    BY <1>2, <1>5, <1>7, <1>10, <2>1, <2>2, <2>3 DEF AdmitEdit, Places
<1>11. ASSUME NEW c \in Calls, AdmitSend(c) PROVE TypeOK'
  <2>1. Busy(c) /\ [call |-> c, part |-> "send"] \in Job
    BY <1>11 DEF AdmitSend, Busy, Job
  <2>2. SchedulerOK'
    BY <1>1, <1>11, <2>1, BusyCall, SchedulerTypes DEF AdmitSend
  <2> QED
    BY <1>2, <1>5, <1>7, <1>11, <2>1, <2>2 DEF AdmitSend, Places
<1>12. ASSUME NEW c \in Calls, AdmitDelete(c) PROVE TypeOK'
  <2>1. Busy(c) /\ [call |-> c, part |-> "delete"] \in Job
    BY <1>12 DEF AdmitDelete, Busy, Job
  <2>2. SchedulerOK'
    BY <1>1, <1>12, <2>1, BusyCall, SchedulerTypes DEF AdmitDelete
  <2> QED
    BY <1>2, <1>5, <1>7, <1>12, <2>1, <2>2 DEF AdmitDelete, Places
<1>13. ASSUME NEW c \in Calls, EditApplies(c) PROVE TypeOK'
  <2>1. Busy(c)
    BY <1>13 DEF EditApplies, Busy
  <2>2. ChatOK'
    BY <1>1, <1>13, <2>1, BusyCall DEF EditApplies
  <2> QED
    BY <1>1, <1>2, <1>3, <1>5, <1>13, <2>1, <2>2, SchedulerTypes DEF EditApplies
<1>14. ASSUME NEW c \in Calls, EditFails(c) PROVE TypeOK'
  <2>1. Busy(c)
    BY <1>14 DEF EditFails, Busy
  <2> QED
    BY <1>1, <1>2, <1>3, <1>4, <1>5, <1>14, <2>1, SchedulerTypes DEF EditFails
<1>15. ASSUME NEW c \in Calls, EditRefused(c) PROVE TypeOK'
  <2>1. Busy(c)
    BY <1>15 DEF EditRefused, Busy
  <2> QED
    BY <1>1, <1>2, <1>3, <1>4, <1>5, <1>15, <2>1 DEF EditRefused
<1>16. ASSUME NEW c \in Calls, SendSucceeds(c) PROVE TypeOK'
  <2>1. Busy(c) /\ call[c] \in Call /\ call[c].lane \in Lanes
    BY <1>1, <1>16, BusyCall DEF SendSucceeds, Busy
  <2>2. ChatOK' /\ sent + 1 \in Messages
    BY <1>6, <1>16, <2>1 DEF SendSucceeds, Appear
  <2>3. SchedulerOK'
    BY <1>1, <1>16, <2>1 DEF SendSucceeds
  <2>4. [call[c] EXCEPT !.replacement = sent + 1] \in Call
    BY <2>1, <2>2 DEF Call
  <2>5. CallsOK'
    BY <1>1, <1>16, <2>1, <2>4, NoneAssumption DEF SendSucceeds, Places, Busy
  <2> QED
    BY <1>2, <1>5, <1>16, <2>2, <2>3, <2>5 DEF SendSucceeds
<1>17. ASSUME NEW c \in Calls, SendFails(c) PROVE TypeOK'
  <2>1. Busy(c)
    BY <1>17 DEF SendFails, Busy
  <2>2. ChatOK'
    BY <1>5, <1>6, <1>17, <2>1 DEF SendFails
  <2> QED
    BY <1>1, <1>2, <1>3, <1>5, <1>17, <2>1, <2>2, SchedulerTypes DEF SendFails, Drop
<1>18. ASSUME NEW c \in Calls, SendRefused(c) PROVE TypeOK'
  <2>1. Busy(c)
    BY <1>18 DEF SendRefused, Busy
  <2> QED
    BY <1>1, <1>2, <1>3, <1>5, <1>18, <2>1, SchedulerTypes DEF SendRefused, Drop
<1>19. ASSUME NEW c \in Calls, DeleteEnds(c) PROVE TypeOK'
  <2>1. Busy(c)
    BY <1>19 DEF DeleteEnds, Busy
  <2>2. ChatOK'
    BY <1>1, <1>19 DEF DeleteEnds
  <2> QED
    BY <1>1, <1>2, <1>5, <1>7, <1>19, <2>1, <2>2, SchedulerTypes
    DEF DeleteEnds, Places
<1>24. ASSUME NEW c \in Calls, Transfer(c) PROVE TypeOK'
  <2>1. Busy(c) /\ call[c].surface \in Surfaces /\ call[c].replacement \in Surfaces
    BY <1>1, <1>24, BusyCall DEF Transfer, Busy, IInv, PlacesFit, Surfaces
  <2>2. LanesOK'
    BY <1>1, <1>24, <2>1 DEF Transfer, TransferLane
  <2> QED
    BY <1>2, <1>3, <1>5, <1>24, <2>2 DEF Transfer
<1>20. ASSUME NEW c \in Calls, DeleteRefused(c) PROVE TypeOK'
  BY <1>2, <1>3, <1>5, <1>20 DEF DeleteRefused
<1>21. ASSUME NEW l \in Lanes, Grant(l) PROVE TypeOK'
  BY <1>1, <1>2, <1>5, <1>21, SchedulerTypes DEF Grant
<1>22. ASSUME NEW l \in Lanes, NEW i \in 1 .. Len(pending[l]), TurnAway(l, i)
       PROVE  TypeOK'
  BY <1>1, <1>2, <1>5, <1>22, SchedulerTypes DEF TurnAway
<1>23. CASE UNCHANGED vars
  BY <1>2, <1>5, <1>23 DEF vars, schedulerVars, chatVars
<1> QED
  BY <1>8, <1>9, <1>10, <1>11, <1>12, <1>13, <1>14, <1>15, <1>16, <1>17, <1>18,
     <1>19, <1>20, <1>21, <1>22, <1>23, <1>24
  DEF Next, Step

-----------------------------------------------------------------------------
(* Boards. *)

\* replace_message has a newer message to show for when it deletes the old
\* one, so that the newest one is never deleted.
LEMMA PlaceStep == IInv /\ [Next]_vars => PlacesFit' /\ NewestBoardLives'
<1> SUFFICES ASSUME IInv, [Next]_vars PROVE PlacesFit' /\ NewestBoardLives'
  OBVIOUS
<1> USE SurfaceKinds
<1>1. /\ TypeOK /\ PlacesFit /\ sent \in live
      /\ sent \in Messages /\ sent \in Nat
      /\ pc \in [Calls -> Places] /\ call \in [Calls -> Call \cup {None}]
  BY DEF IInv, TypeOK, NewestBoardLives
<1> DEFINE Fit(c) == /\ pc[c] = "edit" => call[c].surface \in Editable
                     /\ pc[c] \in {"admitDelete", "send", "delete", "transfer"}
                           => call[c].surface \in Messages
                     /\ Busy(c) /\ call[c].surface \in Messages =>
                           call[c].surface <= sent
                     /\ pc[c] \in {"delete", "transfer"} =>
                           /\ call[c].replacement \in Messages
                           /\ call[c].surface < call[c].replacement
                           /\ call[c].replacement <= sent
<1>2. PlacesFit' <=> \A c \in Calls : Fit(c)'
  BY DEF PlacesFit
<1>3. \A c \in Calls : Fit(c)
  BY <1>1 DEF PlacesFit
<1>4. ASSUME NEW d \in Calls, pc'[d] = pc[d], call'[d] = call[d],
             sent' \in Nat, sent' >= sent
      PROVE  Fit(d)'
  <2>1. CASE Busy(d)
    <3>1. \A m \in Messages : m \in Nat /\ (m <= sent => m <= sent')
      BY <1>1, <1>4
    <3> QED
      BY <1>3, <1>4, <2>1, <3>1 DEF Busy
  <2>2. CASE ~Busy(d)
    BY <1>4, <2>2 DEF Busy
  <2> QED
    BY <2>1, <2>2
<1>5. ASSUME NEW c \in Calls, Return(c) PROVE Fit(c)'
  BY <1>1, <1>5 DEF Return, Busy
<1>6. ASSUME NEW c \in Calls, NEW to \in Places, NEW k \in Call \cup {None},
             pc' = [pc EXCEPT ![c] = to], call' = [call EXCEPT ![c] = k],
             NEW d \in Calls, d # c
      PROVE  pc'[d] = pc[d] /\ call'[d] = call[d]
  BY <1>1, <1>6
<1>7. ASSUME NEW c \in Calls, Return(c), sent' \in Nat, sent' >= sent
      PROVE  PlacesFit'
  BY <1>1, <1>2, <1>4, <1>5, <1>7 DEF Return
<1>8. UNCHANGED <<sent, live>> => NewestBoardLives'
  BY <1>1 DEF NewestBoardLives
<1>9. ASSUME NEW c \in Calls, Appear(c)
      PROVE  /\ sent' \in Nat /\ sent' = sent + 1 /\ sent' \in Messages
             /\ NewestBoardLives'
  BY <1>1, <1>9, BoundsAssumption DEF Appear, NewestBoardLives, Messages
<1>10. ASSUME NEW c \in Calls, NEW s \in Surfaces, NEW r \in Revision, Enter(c, s, r)
       PROVE  PlacesFit' /\ NewestBoardLives'
  <2>1. Fit(c)'
    BY <1>1, <1>10 DEF Enter, Busy, chatVars
  <2>2. \A d \in Calls \ {c} : pc'[d] = pc[d] /\ call'[d] = call[d]
    BY <1>1, <1>10 DEF Enter
  <2> QED
    BY <1>1, <1>2, <1>4, <1>8, <1>10, <2>1, <2>2 DEF Enter, chatVars
<1>11. ASSUME NEW c \in Calls, AdmitEdit(c) \/ AdmitSend(c) \/ AdmitDelete(c)
       PROVE  PlacesFit' /\ NewestBoardLives'
  <2>1. Fit(c)'
    BY <1>1, <1>3, <1>11 DEF AdmitEdit, AdmitSend, AdmitDelete, Busy, chatVars
  <2>2. \A d \in Calls \ {c} : pc'[d] = pc[d] /\ call'[d] = call[d]
    BY <1>1, <1>11 DEF AdmitEdit, AdmitSend, AdmitDelete
  <2>3. UNCHANGED <<sent, live>>
    BY <1>11 DEF AdmitEdit, AdmitSend, AdmitDelete, chatVars
  <2> QED
    BY <1>1, <1>2, <1>4, <1>8, <2>1, <2>2, <2>3
<1>12. ASSUME NEW c \in Calls,
              EditApplies(c) \/ EditFails(c) \/ EditRefused(c) \/ SendRefused(c)
                 \/ Transfer(c) \/ DeleteRefused(c)
       PROVE  PlacesFit' /\ NewestBoardLives'
  <2>1. Return(c) /\ UNCHANGED <<sent, live>>
    BY <1>12 DEF EditApplies, EditFails, EditRefused, SendRefused, Transfer,
                 DeleteRefused, chatVars
  <2> QED
    BY <1>1, <1>7, <1>8, <2>1
<1>13. ASSUME NEW c \in Calls, SendSucceeds(c)
       PROVE  PlacesFit' /\ NewestBoardLives'
  <2>1. /\ sent' \in Nat /\ sent' = sent + 1 /\ sent' \in Messages
        /\ NewestBoardLives'
    BY <1>9, <1>13 DEF SendSucceeds
  <2>2. /\ call[c] \in Call /\ call[c].surface \in Messages
        /\ call[c].surface <= sent
    BY <1>1, <1>3, <1>13, BusyCall DEF SendSucceeds, Busy
  <2>3. /\ pc'[c] = "delete"
        /\ call'[c].surface = call[c].surface
        /\ call'[c].replacement = sent + 1
    BY <1>1, <1>13, <2>2 DEF SendSucceeds, Call
  <2>4. Fit(c)'
    <3>1. call'[c].surface <= sent' /\ call'[c].surface < sent'
      <4>1. call[c].surface \in Nat
        BY <2>2
      <4>2. call[c].surface <= sent + 1 /\ call[c].surface < sent + 1
        BY <1>1, <2>2, <4>1
      <4> QED
        BY <2>1, <2>3, <4>2
    <3>2. sent' <= sent'
      BY <2>1
    <3> QED
      BY <2>1, <2>2, <2>3, <3>1, <3>2
  <2>5. \A d \in Calls \ {c} : pc'[d] = pc[d] /\ call'[d] = call[d]
    BY <1>1, <1>13 DEF SendSucceeds
  <2> HIDE DEF Fit
  <2> QED
    BY <1>1, <1>2, <1>4, <2>1, <2>4, <2>5
<1>14. ASSUME NEW c \in Calls, SendFails(c)
       PROVE  PlacesFit' /\ NewestBoardLives'
  <2>1. Return(c) /\ (Appear(c) \/ UNCHANGED <<sent, live>>)
    BY <1>14 DEF SendFails, chatVars
  <2> QED
    BY <1>1, <1>7, <1>8, <1>9, <2>1
<1>15. ASSUME NEW c \in Calls, DeleteEnds(c)
       PROVE  PlacesFit' /\ NewestBoardLives'
  <2>1. /\ pc' = [pc EXCEPT ![c] = "transfer"] /\ call' = call
        /\ pc[c] = "delete" /\ sent' = sent
    BY <1>15 DEF DeleteEnds
  <2>2. call[c].surface # sent
    <3>1. /\ call[c].surface \in Messages /\ call[c].replacement \in Messages
          /\ call[c].surface < call[c].replacement
          /\ call[c].replacement <= sent
      BY <1>3, <1>15 DEF DeleteEnds
    <3>2. call[c].surface \in Nat /\ call[c].replacement \in Nat
      BY <3>1
    <3> QED
      BY <1>1, <3>1, <3>2
  <2>3. NewestBoardLives'
    BY <1>1, <1>15, <2>1, <2>2 DEF DeleteEnds, NewestBoardLives
  <2>4. Fit(c)'
    BY <1>1, <1>3, <2>1 DEF Busy
  <2>5. \A d \in Calls \ {c} : pc'[d] = pc[d] /\ call'[d] = call[d]
    BY <1>1, <2>1
  <2> HIDE DEF Fit
  <2> QED
    BY <1>1, <1>2, <1>4, <2>1, <2>3, <2>4, <2>5
<1>16. ASSUME UNCHANGED <<pc, call, sent, live>>
       PROVE  PlacesFit' /\ NewestBoardLives'
  BY <1>1, <1>2, <1>4, <1>8, <1>16
<1> QED
  BY <1>10, <1>11, <1>12, <1>13, <1>14, <1>15, <1>16
  DEF Next, Step, Commit, Grant, TurnAway, vars, chatVars

-----------------------------------------------------------------------------
(* Jobs and calls. *)

\* The jobs of a lane, one by one.
LEMMA JobFacts ==
    ASSUME IInv, NEW l \in Lanes, NEW job \in JobsOf(l)
    PROVE  /\ job \in Job
           /\ job.call \in Calls
           /\ Busy(job.call)
           /\ call[job.call].lane = l
           /\ pc[job.call] \in PlacesOf(job.part)
           /\ job = granted[l] \/ job \in ToSet(pending[l])
<1>1. job \in Job
  BY LaneJobs DEF IInv
<1>2. Owned(l, job)
  BY DEF IInv, QueueOK, JobsAreOwned
<1>3. pc[job.call] # "idle"
  BY <1>2 DEF Owned, PlacesOf
<1> QED
  BY <1>1, <1>2, <1>3 DEF Job, Owned, Busy, JobsOf

\* A lane that only loses jobs, none of them but those of calls that go on,
\* is still in order.
LEMMA LanesShrink ==
    ASSUME IInv,
           \A l \in Lanes :
              /\ ToSet(pending'[l]) \subseteq ToSet(pending[l])
              /\ IsInjective(pending'[l])
              /\ granted'[l] \in {None, granted[l]},
           \A l \in Lanes : \A job \in JobsOf(l)' :
              /\ pc'[job.call] \in PlacesOf(job.part)
              /\ call'[job.call].lane = l
    PROVE  QueueOK'
<1>1. \A l \in Lanes : \A job \in ToSet(pending[l]) : job # None
  BY LaneJobs, NoneAssumption DEF IInv
<1> QED
  BY <1>1 DEF IInv, QueueOK, JobsAreOwned, JobsAreSingle, OneRenderWaits, Owned,
              IsLatestWins

\* What Release leaves in the lanes.
LEMMA ReleaseShrinks ==
    ASSUME IInv, NEW c \in Calls, Busy(c), Release(c), NEW l \in Lanes
    PROVE  /\ ToSet(pending'[l]) \subseteq ToSet(pending[l])
           /\ IsInjective(pending'[l])
           /\ granted'[l] \in {None, granted[l]}
           /\ l = call[c].lane =>
                 /\ [call |-> c, part |-> "delete"] \notin ToSet(pending'[l])
                 /\ granted'[l] # None => granted'[l].call # c
<1>1. /\ pending \in [Lanes -> Seq(Job)]
      /\ granted \in [Lanes -> Job \cup {None}]
      /\ IsInjective(pending[l])
  BY DEF IInv, TypeOK, QueueOK, JobsAreSingle
<1>2. CASE l = call[c].lane
  <2> DEFINE own == [call |-> c, part |-> "delete"]
  <2>1. /\ ToSet(RemoveFirst(pending[l], own)) \subseteq ToSet(pending[l])
        /\ IsInjective(RemoveFirst(pending[l], own))
        /\ own \notin ToSet(RemoveFirst(pending[l], own))
    BY <1>1, ToSetRemoveFirst
  <2>2. pending'[l] = RemoveFirst(pending[l], own)
    BY <1>1, <1>2 DEF Release
  <2>3. granted'[l] = IF granted[l] # None /\ granted[l].call = c THEN None
                      ELSE granted[l]
    BY <1>1, <1>2 DEF Release
  <2> QED
    BY <2>1, <2>2, <2>3
<1>3. CASE l # call[c].lane
  BY <1>1, <1>3 DEF Release
<1> QED
  BY <1>2, <1>3

\* A call that returns leaves no job behind, in any lane: neither the one it
\* was waiting for nor the delete it had queued behind it.
LEMMA EndedCallHasNoJob ==
    ASSUME IInv, NEW c \in Calls, pc[c] \in {"edit", "send", "delete"},
           \/ Release(c) /\ (Running(c, pc[c]) \/ Refused(c, pc[c]))
           \/ Refused(c, pc[c]) /\ pc[c] # "send" /\ UNCHANGED schedulerVars
    PROVE  \A l \in Lanes :
              /\ ToSet(pending'[l]) \subseteq ToSet(pending[l])
              /\ IsInjective(pending'[l])
              /\ granted'[l] \in {None, granted[l]}
              /\ \A job \in JobsOf(l)' : job \in JobsOf(l) /\ job.call # c
<1> TAKE l \in Lanes
<1>1. Busy(c) /\ IsInjective(pending[l]) /\ granted[l] \notin ToSet(pending[l])
  BY DEF Busy, IInv, QueueOK, JobsAreSingle
<1>2. /\ ToSet(pending'[l]) \subseteq ToSet(pending[l])
      /\ IsInjective(pending'[l])
      /\ granted'[l] \in {None, granted[l]}
  BY <1>1, ReleaseShrinks DEF schedulerVars
<1>3. JobsOf(l)' \subseteq JobsOf(l)
  BY <1>2 DEF JobsOf
<1>4. ASSUME NEW job \in JobsOf(l)', job.call = c PROVE FALSE
  <2>1. /\ job \in Job /\ call[c].lane = l
        /\ pc[c] \in PlacesOf(job.part)
        /\ job = granted[l] \/ job \in ToSet(pending[l])
    BY <1>3, <1>4, JobFacts
  <2>2. job = [call |-> c, part |-> job.part]
    BY <1>4, <2>1 DEF Job
  <2>3. \/ job = granted'[l] /\ granted'[l] # None
        \/ job \in ToSet(pending'[l])
    BY <1>4 DEF JobsOf
  <2>4. CASE job.part = pc[c]
    <3>1. CASE Refused(c, pc[c])
      BY <2>1, <2>2, <2>4, <3>1 DEF Refused, Running
    <3>2. CASE Running(c, pc[c]) /\ Release(c)
      <4>1. job = granted[l]
        BY <2>1, <2>2, <2>4, <3>2 DEF Running
      <4>2. job \notin ToSet(pending'[l])
        BY <1>1, <1>2, <4>1
      <4>3. granted'[l] # None => granted'[l].call # c
        BY <1>1, <2>1, <3>2, ReleaseShrinks
      <4> QED
        BY <1>4, <2>3, <4>2, <4>3
    <3> QED
      BY <3>1, <3>2
  <2>5. CASE job.part # pc[c]
    <3>1. pc[c] = "send" /\ job.part = "delete"
      BY <2>1, <2>5 DEF PlacesOf
    <3>2. Release(c)
      BY <3>1
    <3> QED
      BY <1>1, <1>4, <2>1, <2>2, <2>3, <3>1, <3>2, ReleaseShrinks
  <2> QED
    BY <2>4, <2>5
<1> QED
  BY <1>2, <1>3, <1>4

\* A render takes its place in the lane, as the only one that waits there
\* (surface.rs: acquire_latest_wins).
LEMMA RenderWaits ==
    ASSUME IInv, NEW c \in Calls, pc[c] = "admit",
           NEW part \in {"edit", "send"}, NEW to \in PlacesOf(part),
           AcquireLatestWins(call[c].lane, [call |-> c, part |-> part]),
           pc' = [pc EXCEPT ![c] = to], call' = call
    PROVE  QueueOK'
<1> DEFINE L == call[c].lane
           job == [call |-> c, part |-> part]
           rest == RemoveFirstMatch(pending[L], IsLatestWins)
<1>1. L \in Lanes /\ job \in Job
  BY BusyCall DEF IInv, Busy, Job
<1>2. /\ pending \in [Lanes -> Seq(Job)] /\ granted' = granted
      /\ pc \in [Calls -> Places]
      /\ pending' = [pending EXCEPT ![L] = Append(rest, job)]
  BY DEF IInv, TypeOK, AcquireLatestWins
<1>3. \A l \in Lanes : /\ IsInjective(pending[l])
                       /\ granted[l] \notin ToSet(pending[l])
                       /\ \A i, j \in ToSet(pending[l]) :
                             IsLatestWins(i) /\ IsLatestWins(j) => i = j
  BY DEF IInv, QueueOK, JobsAreSingle, OneRenderWaits
<1>4. /\ rest \in Seq(Job) /\ ToSet(rest) \subseteq ToSet(pending[L])
      /\ IsInjective(rest)
      /\ \A i \in ToSet(rest) : ~IsLatestWins(i)
  BY <1>1, <1>2, <1>3, DisplacedLane
<1>5. \A l \in Lanes : \A j \in JobsOf(l) : j.call # c
  BY JobFacts DEF PlacesOf
<1>6. \A l \in Lanes : granted[l] # job /\ job \notin ToSet(pending[l])
  BY <1>1, <1>5, NoneAssumption DEF JobsOf
<1>7. /\ ToSet(pending'[L]) = ToSet(rest) \cup {job}
      /\ IsInjective(pending'[L])
      /\ \A l \in Lanes \ {L} : pending'[l] = pending[l]
  <2>1. job \notin ToSet(rest)
    BY <1>1, <1>4, <1>6
  <2> HIDE DEF rest, job
  <2> QED
    BY <1>1, <1>2, <1>4, <2>1, ToSetAppend
<1> HIDE DEF rest, L
<1>8. JobsAreSingle'
  BY <1>1, <1>2, <1>3, <1>4, <1>6, <1>7 DEF JobsAreSingle
<1>9. OneRenderWaits'
  BY <1>1, <1>3, <1>4, <1>7 DEF OneRenderWaits
<1>10. JobsAreOwned'
  <2> SUFFICES ASSUME NEW l \in Lanes, NEW j \in JobsOf(l)'
               PROVE  pc'[j.call] \in PlacesOf(j.part) /\ call'[j.call].lane = l
    BY DEF JobsAreOwned, Owned
  <2>1. CASE j \in JobsOf(l)
    BY <1>2, <1>5, <2>1, JobFacts
  <2>2. CASE j \notin JobsOf(l)
    <3>1. j = job /\ l = L
      BY <1>2, <1>4, <1>7, <2>2 DEF JobsOf
    <3> QED
      BY <1>2, <3>1 DEF L
  <2> QED
    BY <2>1, <2>2
<1> QED
  BY <1>8, <1>9, <1>10 DEF QueueOK

\* The delete takes its place behind everything else (surface.rs: both
\* acquires enqueue synchronously).
LEMMA DeleteWaits ==
    ASSUME IInv, NEW c \in Calls, AdmitDelete(c)
    PROVE  QueueOK'
<1> DEFINE L == call[c].lane
           job == [call |-> c, part |-> "delete"]
<1>1. L \in Lanes /\ job \in Job /\ pc[c] = "admitDelete"
  BY BusyCall DEF IInv, Busy, Job, AdmitDelete
<1>2. /\ pending \in [Lanes -> Seq(Job)] /\ granted' = granted
      /\ pc \in [Calls -> Places]
      /\ pending' = [pending EXCEPT ![L] = Append(@, job)]
      /\ pc' = [pc EXCEPT ![c] = "send"] /\ call' = call
  BY DEF IInv, TypeOK, AdmitDelete, Acquire
<1>3. \A l \in Lanes : /\ IsInjective(pending[l])
                       /\ granted[l] \notin ToSet(pending[l])
                       /\ \A i, j \in ToSet(pending[l]) :
                             IsLatestWins(i) /\ IsLatestWins(j) => i = j
  BY DEF IInv, QueueOK, JobsAreSingle, OneRenderWaits
<1>4. \A l \in Lanes : \A j \in JobsOf(l) : j.call = c => j.part = "send"
  BY <1>1, JobFacts DEF PlacesOf, Job
<1>5. \A l \in Lanes : granted[l] # job /\ job \notin ToSet(pending[l])
  BY <1>1, <1>4, NoneAssumption DEF JobsOf
<1>6. /\ ToSet(pending'[L]) = ToSet(pending[L]) \cup {job}
      /\ IsInjective(pending'[L])
      /\ \A l \in Lanes \ {L} : pending'[l] = pending[l]
  <2> HIDE DEF job
  <2> QED
    BY <1>1, <1>2, <1>3, <1>5, ToSetAppend
<1>7. ~IsLatestWins(job)
  BY DEF IsLatestWins
<1> HIDE DEF L
<1>8. JobsAreSingle'
  BY <1>1, <1>2, <1>3, <1>5, <1>6 DEF JobsAreSingle
<1>9. OneRenderWaits'
  <2> HIDE DEF job
  <2> QED
    BY <1>1, <1>3, <1>6, <1>7 DEF OneRenderWaits
<1>10. JobsAreOwned'
  <2> SUFFICES ASSUME NEW l \in Lanes, NEW j \in JobsOf(l)'
               PROVE  pc'[j.call] \in PlacesOf(j.part) /\ call'[j.call].lane = l
    BY DEF JobsAreOwned, Owned
  <2>1. CASE j \in JobsOf(l)
    <3>1. j.call \in Calls /\ pc[j.call] \in PlacesOf(j.part)
          /\ call[j.call].lane = l
      BY <2>1, JobFacts
    <3>2. CASE j.call = c
      BY <1>2, <1>4, <2>1, <3>1, <3>2 DEF PlacesOf, Places
    <3>3. CASE j.call # c
      BY <1>2, <3>1, <3>3
    <3> QED
      BY <3>2, <3>3
  <2>2. CASE j \notin JobsOf(l)
    <3>1. j = job /\ l = L
      BY <1>2, <1>6, <2>2 DEF JobsOf
    <3> QED
      BY <1>2, <1>1, <3>1 DEF L, PlacesOf, Places
  <2> QED
    BY <2>1, <2>2
<1> QED
  BY <1>8, <1>9, <1>10 DEF QueueOK

\* What the calls and the scheduler do to the lanes keeps them in order.
LEMMA QueueStep == IInv /\ [Next]_vars => QueueOK'
<1> SUFFICES ASSUME IInv, [Next]_vars PROVE QueueOK'
  OBVIOUS
<1>1. /\ TypeOK /\ pc \in [Calls -> Places] /\ call \in [Calls -> Call \cup {None}]
      /\ pending \in [Lanes -> Seq(Job)]
      /\ granted \in [Lanes -> Job \cup {None}]
      /\ \A l \in Lanes : /\ IsInjective(pending[l])
                          /\ granted[l] \notin ToSet(pending[l])
  BY DEF IInv, TypeOK, QueueOK, JobsAreSingle
<1>2. ASSUME UNCHANGED <<pending, granted>>,
             \A l \in Lanes : \A job \in JobsOf(l) :
                /\ pc'[job.call] \in PlacesOf(job.part)
                /\ call'[job.call].lane = l
      PROVE  QueueOK'
  BY <1>1, <1>2, LanesShrink DEF JobsOf
<1>3. UNCHANGED <<pending, granted, pc, call>> => QueueOK'
  BY <1>2, JobFacts
<1>12. ASSUME NEW c \in Calls, Transfer(c) PROVE QueueOK'
  <2>1. \A l \in Lanes : \A job \in JobsOf(l) : job.call \in Calls \ {c}
    BY <1>12, JobFacts DEF Transfer, PlacesOf
  <2>2. \A d \in Calls \ {c} : pc'[d] = pc[d] /\ call'[d] = call[d]
    BY <1>1, <1>12 DEF Transfer, Return
  <2> QED
    BY <1>2, <1>12, <2>1, <2>2, JobFacts DEF Transfer, schedulerVars
<1>4. ASSUME NEW c \in Calls, NEW s \in Surfaces, NEW r \in Revision, Enter(c, s, r)
      PROVE  QueueOK'
  <2>1. \A l \in Lanes : \A job \in JobsOf(l) : job.call \in Calls \ {c}
    BY <1>4, JobFacts DEF Enter, Busy
  <2>2. \A d \in Calls \ {c} : pc'[d] = pc[d] /\ call'[d] = call[d]
    BY <1>1, <1>4 DEF Enter
  <2> QED
    BY <1>2, <1>4, <2>1, <2>2, JobFacts DEF Enter, schedulerVars
<1>5. ASSUME NEW c \in Calls, AdmitEdit(c) PROVE QueueOK'
  <2>1. "edit" \in PlacesOf("edit")
    BY DEF PlacesOf, Places
  <2> QED
    BY <1>5, <2>1, RenderWaits DEF AdmitEdit
<1>6. ASSUME NEW c \in Calls, AdmitSend(c) PROVE QueueOK'
  <2>1. "admitDelete" \in PlacesOf("send")
    BY DEF PlacesOf, Places
  <2> QED
    BY <1>6, <2>1, RenderWaits DEF AdmitSend
<1>7. ASSUME NEW c \in Calls, AdmitDelete(c) PROVE QueueOK'
  BY <1>7, DeleteWaits
<1>8. ASSUME NEW c \in Calls,
             EditApplies(c) \/ EditFails(c) \/ EditRefused(c) \/ SendFails(c)
                \/ SendRefused(c) \/ DeleteEnds(c) \/ DeleteRefused(c)
      PROVE  QueueOK'
  <2>1. /\ pc[c] \in {"edit", "send", "delete"}
        /\ Return(c) \/ (pc' = [pc EXCEPT ![c] = "transfer"] /\ call' = call)
    BY <1>8 DEF EditApplies, EditFails, EditRefused, SendFails, SendRefused,
                DeleteEnds, DeleteRefused
  <2>2. \/ Release(c) /\ (Running(c, pc[c]) \/ Refused(c, pc[c]))
        \/ Refused(c, pc[c]) /\ pc[c] # "send" /\ UNCHANGED schedulerVars
    BY <1>8 DEF EditApplies, EditFails, EditRefused, SendFails, SendRefused,
                DeleteEnds, DeleteRefused, Drop
  <2>3. \A l \in Lanes :
           /\ ToSet(pending'[l]) \subseteq ToSet(pending[l])
           /\ IsInjective(pending'[l])
           /\ granted'[l] \in {None, granted[l]}
           /\ \A job \in JobsOf(l)' : job \in JobsOf(l) /\ job.call # c
    BY <2>1, <2>2, EndedCallHasNoJob
  <2>4. \A d \in Calls \ {c} : pc'[d] = pc[d] /\ call'[d] = call[d]
    BY <1>1, <2>1 DEF Return
  <2>5. \A l \in Lanes : \A job \in JobsOf(l)' :
           /\ pc'[job.call] \in PlacesOf(job.part)
           /\ call'[job.call].lane = l
    BY <2>3, <2>4, JobFacts
  <2> QED
    BY <2>3, <2>5, LanesShrink
<1>9. ASSUME NEW c \in Calls, SendSucceeds(c) PROVE QueueOK'
  <2> DEFINE L == call[c].lane
             own == [call |-> c, part |-> "send"]
  <2>1. /\ L \in Lanes /\ pc[c] = "send" /\ call[c] \in Call /\ granted[L] = own
        /\ pending' = pending
        /\ granted' = [granted EXCEPT ![L] = None]
        /\ pc' = [pc EXCEPT ![c] = "delete"]
        /\ call' = [call EXCEPT ![c].replacement = sent + 1]
    BY <1>1, <1>9, BusyCall DEF SendSucceeds, Busy, Running
  <2>2. \A l \in Lanes : JobsOf(l)' \subseteq JobsOf(l)
    BY <1>1, <2>1 DEF JobsOf
  <2>3. \A d \in Calls \ {c} : pc'[d] = pc[d] /\ call'[d] = call[d]
    BY <1>1, <2>1
  <2>4. call'[c].lane = L /\ pc'[c] = "delete"
    BY <1>1, <2>1 DEF Call
  <2>5. ASSUME NEW l \in Lanes, NEW job \in JobsOf(l)'
        PROVE  pc'[job.call] \in PlacesOf(job.part) /\ call'[job.call].lane = l
    <3>1. /\ job \in Job /\ job.call \in Calls /\ call[job.call].lane = l
          /\ pc[job.call] \in PlacesOf(job.part)
      BY <2>2, <2>5, JobFacts
    <3>2. CASE job.call = c
      <4>1. job # own
        <5>1. l = L
          BY <3>1, <3>2
        <5>2. job \in ToSet(pending[L])
          BY <1>1, <2>1, <2>5, <5>1 DEF JobsOf
        <5> QED
          BY <1>1, <2>1, <5>2
      <4>2. job.part = "delete"
        BY <2>1, <3>1, <3>2, <4>1 DEF Job, PlacesOf
      <4> QED
        BY <2>4, <3>1, <3>2, <4>2 DEF PlacesOf, Places
    <3>3. CASE job.call # c
      BY <2>3, <3>1, <3>3
    <3> QED
      BY <3>2, <3>3
  <2>6. \A l \in Lanes :
           /\ ToSet(pending'[l]) \subseteq ToSet(pending[l])
           /\ IsInjective(pending'[l])
           /\ granted'[l] \in {None, granted[l]}
    BY <1>1, <2>1
  <2> QED
    BY <2>5, <2>6, LanesShrink
<1>10. ASSUME NEW l \in Lanes, Grant(l) PROVE QueueOK'
  <2>1. /\ pending[l] \in Seq(Job) /\ pending[l] # << >> /\ granted[l] = None
        /\ granted' = [granted EXCEPT ![l] = Head(pending[l])]
        /\ pending' = [pending EXCEPT ![l] = Tail(@)]
        /\ pc' = pc /\ call' = call
    BY <1>1, <1>10 DEF Grant
  <2>2. /\ Head(pending[l]) \in ToSet(pending[l])
        /\ ToSet(Tail(pending[l])) \subseteq ToSet(pending[l])
        /\ IsInjective(Tail(pending[l]))
        /\ Head(pending[l]) \notin ToSet(Tail(pending[l]))
    BY <1>1, <2>1, ToSetTail
  <2>3. /\ pending'[l] = Tail(pending[l]) /\ granted'[l] = Head(pending[l])
        /\ \A k \in Lanes \ {l} : pending'[k] = pending[k] /\ granted'[k] = granted[k]
    BY <1>1, <2>1
  <2>4. \A k \in Lanes : JobsOf(k)' \subseteq JobsOf(k)
    BY <2>2, <2>3 DEF JobsOf
  <2>5. JobsAreOwned'
    BY <2>1, <2>4, JobFacts DEF JobsAreOwned, Owned
  <2>6. JobsAreSingle'
    BY <1>1, <2>2, <2>3 DEF JobsAreSingle
  <2>7. OneRenderWaits'
    BY <2>2, <2>3 DEF IInv, QueueOK, OneRenderWaits, IsLatestWins
  <2> QED
    BY <2>5, <2>6, <2>7 DEF QueueOK
<1>11. ASSUME NEW l \in Lanes, NEW i \in 1 .. Len(pending[l]), TurnAway(l, i)
       PROVE  QueueOK'
  <2>1. /\ pending' = [pending EXCEPT ![l] = RemoveAt(@, i)]
        /\ granted' = granted /\ pc' = pc /\ call' = call
    BY <1>11 DEF TurnAway
  <2>2. /\ ToSet(RemoveAt(pending[l], i)) \subseteq ToSet(pending[l])
        /\ IsInjective(RemoveAt(pending[l], i))
    BY <1>1, ToSetRemoveAt
  <2>3. \A k \in Lanes : /\ ToSet(pending'[k]) \subseteq ToSet(pending[k])
                         /\ IsInjective(pending'[k])
                         /\ granted'[k] \in {None, granted[k]}
    BY <1>1, <2>1, <2>2
  <2>4. \A k \in Lanes : JobsOf(k)' \subseteq JobsOf(k)
    BY <2>1, <2>3 DEF JobsOf
  <2> QED
    BY <2>1, <2>3, <2>4, JobFacts, LanesShrink
<1> QED
  BY <1>3, <1>4, <1>5, <1>6, <1>7, <1>8, <1>9, <1>10, <1>11, <1>12
  DEF Next, Step, Commit, vars, schedulerVars

-----------------------------------------------------------------------------
(* The invariant holds. *)

\* The view's first message is in the chat, and nothing else happened.
LEMMA InvInit == Init => IInv
<1> SUFFICES ASSUME Init PROVE IInv
  OBVIOUS
<1> USE DEF Init
<1>1. TypeOK
  <2>1. 1 \in Messages /\ 0 \in Revision /\ 0 \in 0 .. MaxLanes
    BY BoundsAssumption DEF Messages, Revision
  <2>2. << >> \in Seq(Job)
    BY EmptySeq
  <2>3. LanesAreOwn
    BY DEF LanesAreOwn
  <2> QED
    BY <2>1, <2>2, <2>3 DEF TypeOK, Places
<1>2. LanesAreOwn /\ CallsKeepTheirLane /\ PlacesFit
  BY DEF LanesAreOwn, CallsKeepTheirLane, PlacesFit, Busy
<1>3. \A l \in Lanes : JobsOf(l) = {} /\ ToSet(pending[l]) = {} /\ IsInjective(pending[l])
  BY ToSetEmpty DEF JobsOf
<1>4. QueueOK
  BY <1>3 DEF QueueOK, JobsAreOwned, JobsAreSingle, OneRenderWaits
<1> QED
  BY <1>1, <1>2, <1>4 DEF IInv, NewestBoardLives

\* Each step of a call, of the scheduler and of the views keeps the invariant
\* (surface.rs: project_editable, replace_regular_message).
LEMMA InvStep == IInv /\ [Next]_vars => IInv'
  BY TypeStep, LaneStep, PlaceStep, QueueStep DEF IInv

\* The invariant holds in every state of the worker.
LEMMA IInvHolds == Spec => []IInv
  BY InvInit, InvStep, PTL DEF Spec

\* The worker, its lanes and the chat keep their types.
THEOREM TypeInvariant == Spec => []TypeOK
<1>1. IInv => TypeOK
  BY DEF IInv
<1> QED
  BY <1>1, IInvHolds, PTL

\* Whatever fails, is superseded, is turned away, or is repeated on a surface
\* that was replaced long ago, the newest board that reached the chat stays.
THEOREM NewestBoardStays == Spec => []NewestBoardLives
<1>1. IInv => NewestBoardLives
  BY DEF IInv
<1> QED
  BY <1>1, IInvHolds, PTL

\* Two edits of one surface are never in flight together, however many lanes
\* have come and gone (surface.rs: lane_for).
THEOREM EditsRunOneByOne == Spec => []EditsAreSerial
<1>1. IInv => EditsAreSerial
  <2> SUFFICES ASSUME IInv, NEW c \in Calls, NEW d \in Calls, c # d,
                      InFlight(c), InFlight(d), call[c].surface \in Editable,
                      call[c].surface = call[d].surface
               PROVE  FALSE
    BY DEF EditsAreSerial
  <2>1. Busy(c) /\ Busy(d)
    BY DEF InFlight, Busy
  <2>2. call[c].lane = call[d].lane
    BY <2>1 DEF IInv, CallsKeepTheirLane
  <2> QED
    BY <2>2 DEF InFlight, Running
<1> QED
  BY <1>1, IInvHolds, PTL

-----------------------------------------------------------------------------
(* No lane is stuck. *)

\* The two jobs of a replacement.
SendOf(c) == [call |-> c, part |-> "send"]
DeleteOf(c) == [call |-> c, part |-> "delete"]

\* A delete is behind the send of its call: it never waits in front of it, nor
\* runs while it waits.
DeletesComeLast ==
    \A l \in Lanes, c \in Calls :
       /\ \A i, j \in 1 .. Len(pending[l]) :
             pending[l][i] = DeleteOf(c) /\ pending[l][j] = SendOf(c) => j < i
       /\ granted[l] = DeleteOf(c) => SendOf(c) \notin ToSet(pending[l])

\* The first latest-wins job leaves the lane, the others close up.
LEMMA FollowsDisplaced ==
    ASSUME NEW s \in Seq(Job)
    PROVE  Follows(s, RemoveFirstMatch(s, IsLatestWins))
<1> DEFINE I == {i \in 1 .. Len(s) : IsLatestWins(s[i])}
<1>1. CASE I = {}
  <2>1. RemoveFirstMatch(s, IsLatestWins) = s
    BY <1>1 DEF RemoveFirstMatch
  <2> QED
    BY <2>1, FollowsItself
<1>2. CASE I # {}
  <2>1. I \in SUBSET Nat
    OBVIOUS
  <2>2. Min(I) \in I
    BY <1>2, <2>1, MinIsLeast
  <2>3. RemoveFirstMatch(s, IsLatestWins) = RemoveAt(s, Min(I))
    BY <1>2 DEF RemoveFirstMatch, SelectInSeq
  <2>4. Min(I) \in 1 .. Len(s)
    BY <2>2
  <2> HIDE DEF I
  <2> QED
    BY <2>3, <2>4, FollowsRemoveAt
<1> QED
  BY <1>1, <1>2

\* The dropped delete leaves the lane.
LEMMA FollowsRelease ==
    ASSUME IInv, NEW c \in Calls, Busy(c), Release(c), NEW l \in Lanes
    PROVE  Follows(pending[l], pending'[l])
<1>1. pending \in [Lanes -> Seq(Job)]
  BY DEF IInv, TypeOK
<1>2. CASE l = call[c].lane
  <2> DEFINE own == [call |-> c, part |-> "delete"]
  <2>1. Follows(pending[l], RemoveFirst(pending[l], own))
    <3>1. pending[l] \in Seq(Job)
      BY <1>1
    <3> HIDE DEF own
    <3> QED
      BY <3>1, RemoveFirstProperties, FollowsItself, FollowsRemoveAt
  <2> QED
    BY <1>1, <1>2, <2>1 DEF Release
<1>3. CASE l # call[c].lane
  BY <1>1, <1>3, FollowsItself DEF Release
<1> QED
  BY <1>2, <1>3

\* In a lane nobody overtakes: whatever the calls and the scheduler do to it,
\* the jobs that stay keep their order, and a new job is the last one (the
\* comment in replace_message of surface.rs relies on it).
LEMMA OrderStep ==
    IInv /\ [Next]_vars => \A l \in Lanes : Follows(pending[l], pending'[l])
<1> SUFFICES ASSUME IInv, [Next]_vars, NEW l \in Lanes
             PROVE  Follows(pending[l], pending'[l])
  OBVIOUS
<1>1. /\ pending \in [Lanes -> Seq(Job)] /\ pending[l] \in Seq(Job)
  BY DEF IInv, TypeOK
<1>2. pending'[l] = pending[l] => Follows(pending[l], pending'[l])
  BY <1>1, FollowsItself
<1>3. ASSUME NEW c \in Calls, NEW part \in {"edit", "send", "delete"},
             Busy(c), call[c].lane = l,
             [call |-> c, part |-> part] \in ToSet(pending[l])
      PROVE  pc[c] \in PlacesOf(part)
  <2>1. [call |-> c, part |-> part] \in JobsOf(l)
    BY <1>3 DEF JobsOf
  <2> QED
    BY <2>1, JobFacts
<1>4. ASSUME NEW c \in Calls, AdmitEdit(c) \/ AdmitSend(c)
      PROVE  Follows(pending[l], pending'[l])
  <2>1. PICK part \in {"edit", "send"} :
           AcquireLatestWins(call[c].lane, [call |-> c, part |-> part])
    BY <1>4 DEF AdmitEdit, AdmitSend
  <2>2. pc[c] = "admit" /\ Busy(c)
    BY <1>4 DEF AdmitEdit, AdmitSend, Busy
  <2>3. CASE call[c].lane = l
    <3> DEFINE job == [call |-> c, part |-> part]
               rest == RemoveFirstMatch(pending[l], IsLatestWins)
    <3>1. job \in Job
      BY DEF Job
    <3>2. job \notin ToSet(pending[l])
      BY <1>3, <2>2, <2>3 DEF PlacesOf
    <3>3. rest \in Seq(Job) /\ Follows(pending[l], rest)
      BY <1>1, DisplacedLane, FollowsDisplaced
    <3>4. pending'[l] = Append(rest, job)
      BY <1>1, <2>1, <2>3 DEF AcquireLatestWins
    <3> HIDE DEF job, rest
    <3> QED
      BY <1>1, <3>1, <3>2, <3>3, <3>4, FollowsAppend
  <2>4. CASE call[c].lane # l
    BY <1>1, <1>2, <2>1, <2>4 DEF AcquireLatestWins
  <2> QED
    BY <2>3, <2>4
<1>5. ASSUME NEW c \in Calls, AdmitDelete(c)
      PROVE  Follows(pending[l], pending'[l])
  <2>1. /\ Acquire(call[c].lane, [call |-> c, part |-> "delete"])
        /\ pc[c] = "admitDelete" /\ Busy(c)
    BY <1>5 DEF AdmitDelete, Busy
  <2>2. CASE call[c].lane = l
    <3> DEFINE job == [call |-> c, part |-> "delete"]
    <3>1. job \in Job
      BY DEF Job
    <3>2. job \notin ToSet(pending[l])
      BY <1>3, <2>1, <2>2 DEF PlacesOf
    <3>3. pending'[l] = Append(pending[l], job)
      BY <1>1, <2>1, <2>2 DEF Acquire
    <3> HIDE DEF job
    <3> QED
      BY <1>1, <3>1, <3>2, <3>3, FollowsItself, FollowsAppend
  <2>3. CASE call[c].lane # l
    BY <1>1, <1>2, <2>1, <2>3 DEF Acquire
  <2> QED
    BY <2>2, <2>3
<1>6. ASSUME NEW c \in Calls,
             EditApplies(c) \/ EditFails(c) \/ SendFails(c) \/ SendRefused(c)
                \/ DeleteEnds(c)
      PROVE  Follows(pending[l], pending'[l])
  <2>1. Busy(c) /\ Release(c)
    BY <1>6 DEF EditApplies, EditFails, SendFails, SendRefused, DeleteEnds,
                Drop, Busy
  <2> QED
    BY <2>1, FollowsRelease
<1>7. ASSUME NEW k \in Lanes, Grant(k)
      PROVE  Follows(pending[l], pending'[l])
  <2>1. CASE k = l
    <3>1. pending[l] # << >> /\ pending'[l] = Tail(pending[l])
      BY <1>1, <1>7, <2>1 DEF Grant
    <3> QED
      BY <1>1, <3>1, FollowsTail
  <2>2. CASE k # l
    BY <1>1, <1>2, <1>7, <2>2 DEF Grant
  <2> QED
    BY <2>1, <2>2
<1>8. ASSUME NEW k \in Lanes, NEW i \in 1 .. Len(pending[k]), TurnAway(k, i)
      PROVE  Follows(pending[l], pending'[l])
  <2>1. CASE k = l
    <3>1. i \in 1 .. Len(pending[l]) /\ pending'[l] = RemoveAt(pending[l], i)
      BY <1>1, <1>8, <2>1 DEF TurnAway
    <3> QED
      BY <1>1, <3>1, FollowsRemoveAt
  <2>2. CASE k # l
    BY <1>1, <1>2, <1>8, <2>2 DEF TurnAway
  <2> QED
    BY <2>1, <2>2
<1>9. UNCHANGED pending => Follows(pending[l], pending'[l])
  BY <1>2
<1>10. ASSUME NEW c \in Calls,
              \/ EditRefused(c) \/ SendSucceeds(c)
              \/ Transfer(c) \/ DeleteRefused(c)
       PROVE  UNCHANGED pending
  BY <1>10 DEF EditRefused, SendSucceeds, Transfer, DeleteRefused, schedulerVars
<1>11. ASSUME NEW c \in Calls, NEW s \in Surfaces, NEW r \in Revision,
              Enter(c, s, r)
       PROVE  UNCHANGED pending
  BY <1>11 DEF Enter, schedulerVars
<1>12. Commit \/ UNCHANGED vars => UNCHANGED pending
  BY DEF Commit, vars, schedulerVars
<1> QED
  BY <1>4, <1>5, <1>6, <1>7, <1>8, <1>9, <1>10, <1>11, <1>12 DEF Next, Step

\* Nobody is overtaken in a lane: what leaves it leaves it from where it stood,
\* and a newcomer is the last (surface.rs: replace_message queues its delete
\* after its send and relies on it).
JobsKeepTheirOrder ==
    [][\A l \in Lanes : Follows(pending[l], pending'[l])]_vars

\* A job overtakes no other one, in any lane and whatever becomes of the calls.
THEOREM NobodyOvertakes == Spec => JobsKeepTheirOrder
  BY InvInit, InvStep, OrderStep, PTL DEF Spec, JobsKeepTheirOrder

\* What is new in a lane has just been admitted.
LEMMA Newcomers ==
    ASSUME IInv, [Next]_vars, NEW l \in Lanes,
           NEW job \in ToSet(pending'[l]) \ ToSet(pending[l])
    PROVE  pc[job.call] = IF job.part = "delete" THEN "admitDelete" ELSE "admit"
<1>1. /\ pending \in [Lanes -> Seq(Job)] /\ pending[l] \in Seq(Job)
  BY DEF IInv, TypeOK
<1>2. pending'[l] # pending[l]
  OBVIOUS
<1>3. ASSUME NEW c \in Calls, AdmitEdit(c) \/ AdmitSend(c)
      PROVE  pc[job.call] = IF job.part = "delete" THEN "admitDelete" ELSE "admit"
  <2>1. PICK part \in {"edit", "send"} :
           AcquireLatestWins(call[c].lane, [call |-> c, part |-> part])
    BY <1>3 DEF AdmitEdit, AdmitSend
  <2>2. pc[c] = "admit"
    BY <1>3 DEF AdmitEdit, AdmitSend
  <2> DEFINE own == [call |-> c, part |-> part]
             rest == RemoveFirstMatch(pending[l], IsLatestWins)
  <2>3. pending'[l] = Append(rest, own)
    BY <1>1, <1>2, <2>1 DEF AcquireLatestWins
  <2>4. own \in Job /\ rest \in Seq(Job) /\ ToSet(rest) \subseteq ToSet(pending[l])
    BY <1>1, DisplacedLane DEF Job
  <2>5. ToSet(pending'[l]) = ToSet(rest) \cup {own}
    <3> HIDE DEF own, rest
    <3> QED
      BY <2>3, <2>4, ToSetAppend
  <2>6. job = own
    <3> HIDE DEF own, rest
    <3> QED
      BY <2>4, <2>5
  <2> QED
    BY <2>2, <2>6
<1>4. ASSUME NEW c \in Calls, AdmitDelete(c)
      PROVE  pc[job.call] = IF job.part = "delete" THEN "admitDelete" ELSE "admit"
  <2> DEFINE own == [call |-> c, part |-> "delete"]
  <2>1. /\ pending'[l] = Append(pending[l], own)
        /\ pc[c] = "admitDelete" /\ own \in Job
    BY <1>1, <1>2, <1>4 DEF AdmitDelete, Acquire, Job
  <2>2. job = own
    <3> HIDE DEF own
    <3> QED
      BY <1>1, <2>1, ToSetAppend
  <2> QED
    BY <2>1, <2>2
<1>5. ASSUME NEW c \in Calls,
             EditApplies(c) \/ EditFails(c) \/ SendFails(c) \/ SendRefused(c)
                \/ DeleteEnds(c)
      PROVE  FALSE
  <2>1. Busy(c) /\ Release(c)
    BY <1>5 DEF EditApplies, EditFails, SendFails, SendRefused, DeleteEnds,
                Drop, Busy
  <2> QED
    BY <2>1, ReleaseShrinks
<1>6. ASSUME NEW k \in Lanes, Grant(k) PROVE FALSE
  <2>1. pending[l] # << >> /\ pending'[l] = Tail(pending[l])
    BY <1>1, <1>2, <1>6 DEF Grant
  <2> QED
    BY <1>1, <2>1, ToSetTail
<1>7. ASSUME NEW k \in Lanes, NEW i \in 1 .. Len(pending[k]), TurnAway(k, i)
      PROVE  FALSE
  <2>1. i \in 1 .. Len(pending[l]) /\ pending'[l] = RemoveAt(pending[l], i)
    BY <1>1, <1>2, <1>7 DEF TurnAway
  <2> QED
    BY <1>1, <2>1, ToSetRemoveAt
<1>8. ASSUME NEW c \in Calls,
             \/ EditRefused(c) \/ SendSucceeds(c)
             \/ Transfer(c) \/ DeleteRefused(c)
      PROVE  FALSE
  BY <1>2, <1>8 DEF EditRefused, SendSucceeds, Transfer, DeleteRefused,
                    schedulerVars
<1>9. ASSUME NEW c \in Calls, NEW s \in Surfaces, NEW r \in Revision,
             Enter(c, s, r)
      PROVE  FALSE
  BY <1>2, <1>9 DEF Enter, schedulerVars
<1>10. ~Commit /\ ~UNCHANGED vars
  BY <1>2 DEF Commit, vars, schedulerVars
<1> QED
  BY <1>3, <1>4, <1>5, <1>6, <1>7, <1>8, <1>9, <1>10 DEF Next, Step

\* A lane grants the first of its jobs, and nothing else takes the permit.
LEMMA GrantedIsFirst ==
    ASSUME IInv, [Next]_vars, NEW l \in Lanes
    PROVE  \/ granted'[l] \in {granted[l], None}
           \/ /\ pending[l] # << >>
              /\ granted'[l] = Head(pending[l])
              /\ pending'[l] = Tail(pending[l])
<1>1. /\ pending \in [Lanes -> Seq(Job)]
      /\ granted \in [Lanes -> Job \cup {None}]
  BY DEF IInv, TypeOK
<1>2. ASSUME NEW k \in Lanes, Grant(k)
      PROVE  \/ granted'[l] = granted[l]
             \/ /\ pending[l] # << >>
                /\ granted'[l] = Head(pending[l])
                /\ pending'[l] = Tail(pending[l])
  BY <1>1, <1>2 DEF Grant
<1>3. ASSUME NEW c \in Calls,
             EditApplies(c) \/ EditFails(c) \/ SendFails(c) \/ SendRefused(c)
                \/ DeleteEnds(c)
      PROVE  granted'[l] \in {granted[l], None}
  <2>1. Busy(c) /\ Release(c)
    BY <1>3 DEF EditApplies, EditFails, SendFails, SendRefused, DeleteEnds,
                Drop, Busy
  <2> QED
    BY <2>1, ReleaseShrinks
<1>4. ASSUME NEW c \in Calls, SendSucceeds(c)
      PROVE  granted'[l] \in {granted[l], None}
  BY <1>1, <1>4 DEF SendSucceeds
<1>5. ASSUME NEW c \in Calls,
             AdmitEdit(c) \/ AdmitSend(c) \/ AdmitDelete(c) \/ EditRefused(c)
                \/ Transfer(c) \/ DeleteRefused(c)
      PROVE  UNCHANGED granted
  BY <1>5 DEF AdmitEdit, AdmitSend, AdmitDelete, EditRefused, Transfer,
              DeleteRefused, schedulerVars, Acquire, AcquireLatestWins
<1>6. ASSUME NEW c \in Calls, NEW s \in Surfaces, NEW r \in Revision,
             Enter(c, s, r)
      PROVE  UNCHANGED granted
  BY <1>6 DEF Enter, schedulerVars
<1>7. ASSUME NEW k \in Lanes, NEW i \in 1 .. Len(pending[k]), TurnAway(k, i)
      PROVE  UNCHANGED granted
  BY <1>7 DEF TurnAway
<1>8. Commit \/ UNCHANGED vars => UNCHANGED granted
  BY DEF Commit, vars, schedulerVars
<1> QED
  BY <1>2, <1>3, <1>4, <1>5, <1>6, <1>7, <1>8 DEF Next, Step

\* Sends stay in front of their deletes.
LEMMA DeletesStep ==
    IInv /\ DeletesComeLast /\ [Next]_vars => DeletesComeLast'
<1> SUFFICES ASSUME IInv, DeletesComeLast, [Next]_vars,
                    NEW l \in Lanes, NEW c \in Calls
             PROVE  /\ \A i, j \in 1 .. Len(pending'[l]) :
                          pending'[l][i] = DeleteOf(c)
                             /\ pending'[l][j] = SendOf(c) => j < i
                    /\ granted'[l] = DeleteOf(c)
                          => SendOf(c) \notin ToSet(pending'[l])
  BY DEF DeletesComeLast, DeleteOf, SendOf
<1>1. /\ pending[l] \in Seq(Job) /\ pending'[l] \in Seq(Job)
      /\ Len(pending[l]) \in Nat /\ Len(pending'[l]) \in Nat
  BY TypeStep DEF IInv, TypeOK
<1>2. /\ DeleteOf(c).call = c /\ DeleteOf(c).part = "delete"
      /\ SendOf(c).call = c /\ SendOf(c).part = "send"
      /\ DeleteOf(c) # SendOf(c) /\ DeleteOf(c) # None
  BY NoneAssumption DEF DeleteOf, SendOf, Job
<1>3. DeleteOf(c) \in JobsOf(l) => pc[c] \in {"send", "delete"}
  <2>1. DeleteOf(c) \in JobsOf(l) => pc[c] \in PlacesOf("delete")
    BY <1>2, JobFacts
  <2> QED
    BY <2>1 DEF PlacesOf
<1>4. SendOf(c) \in ToSet(pending'[l]) \ ToSet(pending[l]) => pc[c] = "admit"
  BY <1>2, Newcomers
<1>5. DeleteOf(c) \in ToSet(pending'[l]) =>
         pc[c] \in {"send", "delete", "admitDelete"}
  BY <1>2, <1>3, Newcomers DEF JobsOf
<1>6. ASSUME NEW i \in 1 .. Len(pending'[l]), NEW j \in 1 .. Len(pending'[l]),
             pending'[l][i] = DeleteOf(c), pending'[l][j] = SendOf(c), ~(j < i)
      PROVE  FALSE
  <2>1. i < j
    BY <1>1, <1>2, <1>6
  <2>2. /\ DeleteOf(c) \in ToSet(pending'[l])
        /\ SendOf(c) \in ToSet(pending'[l])
    <3>1. ToSet(pending'[l]) = {pending'[l][k] : k \in 1 .. Len(pending'[l])}
      BY <1>1, ToSetMembers
    <3> QED
      BY <1>6, <3>1
  <2>3. SendOf(c) \in ToSet(pending[l])
    BY <2>2, <1>4, <1>5
  <2>4. PICK k \in 1 .. Len(pending[l]), m \in 1 .. Len(pending[l]) :
           k < m /\ pending[l][k] = DeleteOf(c) /\ pending[l][m] = SendOf(c)
    <3>1. Follows(pending[l], pending'[l])
      BY OrderStep
    <3>2. pending'[l][j] \in ToSet(pending[l])
      BY <1>6, <2>3
    <3>3. \E k, m \in 1 .. Len(pending[l]) :
             /\ k < m
             /\ pending[l][k] = pending'[l][i] /\ pending[l][m] = pending'[l][j]
      BY <2>1, <3>1, <3>2 DEF Follows
    <3> QED
      BY <1>6, <3>3
  <2> QED
    BY <1>1, <2>4 DEF DeletesComeLast
<1>7. ASSUME granted'[l] = DeleteOf(c), SendOf(c) \in ToSet(pending'[l])
      PROVE  FALSE
  <2>1. CASE granted'[l] \in {granted[l], None}
    <3>1. granted[l] = DeleteOf(c) /\ DeleteOf(c) \in JobsOf(l)
      BY <1>2, <1>7, <2>1 DEF JobsOf
    <3>2. SendOf(c) \notin ToSet(pending[l])
      BY <3>1 DEF DeletesComeLast
    <3> QED
      BY <1>3, <1>4, <1>7, <3>1, <3>2
  <2>2. CASE /\ pending[l] # << >>
             /\ granted'[l] = Head(pending[l])
             /\ pending'[l] = Tail(pending[l])
    <3>1. /\ 1 \in 1 .. Len(pending[l]) /\ pending[l][1] = DeleteOf(c)
      BY <1>1, <1>7, <2>2
    <3>2. SendOf(c) \in ToSet(pending[l])
      BY <1>1, <1>7, <2>2, ToSetTail
    <3>3. PICK m \in 1 .. Len(pending[l]) : pending[l][m] = SendOf(c)
      BY <1>1, <3>2, ToSetMembers
    <3>4. m < 1
      BY <3>1, <3>3 DEF DeletesComeLast
    <3> QED
      BY <3>4
  <2> QED
    BY <2>1, <2>2, GrantedIsFirst
<1> QED
  BY <1>6, <1>7

\* In every state of the worker.
LEMMA DeletesAreLast == Spec => [](IInv /\ DeletesComeLast)
<1>1. Init => DeletesComeLast
  BY ToSetEmpty DEF Init, DeletesComeLast
<1>2. DeletesComeLast /\ UNCHANGED vars => DeletesComeLast'
  BY DEF DeletesComeLast, vars, schedulerVars
<1> QED
  BY <1>1, InvInit, InvStep, DeletesStep, PTL DEF Spec

\* What a call can do next: its guards, one by one.
Ready(c) ==
    \/ pc[c] \in {"admit", "admitDelete", "transfer"}
    \/ \E part \in {"edit", "send", "delete"} :
          pc[c] = part /\ (Running(c, part) \/ Refused(c, part))

\* A lane that is free and has a job waiting.
CanGrant(l) == granted[l] = None /\ pending[l] # << >>

\* Nobody waits for nothing: a call that has not returned can go on, or the
\* lane it waits in can grant its next job, or some call that is in its way
\* there can go on.
NoCallIsStuck ==
    \A c \in Calls :
       Busy(c) => \/ Ready(c)
                  \/ CanGrant(call[c].lane)
                  \/ \E d \in Calls :
                        /\ Busy(d) /\ call[d].lane = call[c].lane
                        /\ Ready(d)

\* There is no deadlock in the lanes, however renders are displaced, jobs are
\* turned away and requests fail: although a replacement queues its delete
\* behind its own send, the delete is never granted while the send waits, and
\* no lane is held by a call that is over (surface.rs: replace_message returns
\* early in three places with the delete still queued).
THEOREM LanesKeepMoving == Spec => []NoCallIsStuck
<1>1. IInv /\ DeletesComeLast => NoCallIsStuck
  <2> SUFFICES ASSUME IInv, DeletesComeLast, NEW c \in Calls, Busy(c),
                      ~Ready(c), ~CanGrant(call[c].lane)
               PROVE  \E d \in Calls : /\ Busy(d) /\ call[d].lane = call[c].lane
                                       /\ Ready(d)
    BY DEF NoCallIsStuck
  <2> DEFINE L == call[c].lane
  <2>1. /\ L \in Lanes /\ pc[c] \in {"edit", "send", "delete"}
        /\ pending[L] \in Seq(Job) /\ granted[L] \in Job \cup {None}
    BY BusyCall DEF IInv, TypeOK, Busy, Ready, Places
  <2>2. [call |-> c, part |-> pc[c]] \in ToSet(pending[L])
    BY <2>1 DEF Ready, Refused
  <2>3. pending[L] # << >>
    BY <2>2, ToSetEmpty
  <2>4. granted[L] # None /\ granted[L] \in JobsOf(L)
    BY <2>3 DEF CanGrant, JobsOf
  <2> DEFINE job == granted[L]
             d == job.call
  <2>5. /\ job \in Job /\ d \in Calls /\ Busy(d) /\ call[d].lane = L
        /\ pc[d] \in PlacesOf(job.part)
    BY <2>1, <2>4, JobFacts
  <2>6. job = [call |-> d, part |-> job.part]
        /\ job.part \in {"edit", "send", "delete"}
    BY <2>5 DEF Job
  <2>7. CASE pc[d] = "admitDelete"
    BY <2>5, <2>7 DEF Ready
  <2>8. CASE pc[d] = job.part
    <3>1. Running(d, job.part)
      BY <2>5, <2>6 DEF Running
    <3> QED
      BY <2>5, <2>6, <2>8, <3>1 DEF Ready
  <2>9. CASE pc[d] = "send" /\ job.part = "delete"
    <3>1. granted[L] = DeleteOf(d)
      BY <2>6, <2>9 DEF DeleteOf
    <3>2. SendOf(d) \notin ToSet(pending[L])
      BY <2>1, <2>5, <3>1 DEF DeletesComeLast
    <3>3. Refused(d, "send")
      BY <2>5, <3>1, <3>2 DEF Refused, Running, DeleteOf, SendOf
    <3> QED
      BY <2>5, <2>9, <3>3 DEF Ready
  <2> QED
    BY <2>5, <2>6, <2>7, <2>8, <2>9 DEF PlacesOf
<1> QED
  BY <1>1, DeletesAreLast, PTL

-----------------------------------------------------------------------------
(* Latest wins. *)

\* The edits that call c has in its lane.
Edit(c) == [call |-> c, part |-> "edit"]

\* The edit that waits in a lane is the one admitted last.
PendingIsDue ==
    \A l \in Lanes : \A job \in ToSet(pending[l]) :
       job.part = "edit" =>
          due[call[job.call].surface] \in {None, call[job.call].revision}

Editing(c, s) == pc[c] = "edit" /\ call[c].surface = s

\* What an editable surface is to show is on its way, or it shows it already
\* and nothing that runs can change that.
DueIsComing ==
    \A s \in Editable :
       due[s] # None =>
          \/ \E c \in Calls : Editing(c, s) /\ call[c].revision = due[s]
          \/ /\ shown[s] = due[s]
             /\ \A c \in Calls : Editing(c, s) => ~Running(c, "edit")

DueInv == PendingIsDue /\ DueIsComing

\* The job of an edit belongs to a call that is editing.
LEMMA EditJobs ==
    ASSUME IInv, NEW l \in Lanes, NEW job \in JobsOf(l), job.part = "edit"
    PROVE  /\ job.call \in Calls /\ job = Edit(job.call)
           /\ pc[job.call] = "edit" /\ Busy(job.call)
           /\ call[job.call].surface \in Editable
           /\ call[job.call].lane = l
           /\ lanes[call[job.call].surface] = l
<1>1. /\ job \in Job /\ job.call \in Calls /\ pc[job.call] = "edit"
      /\ Busy(job.call) /\ call[job.call].lane = l
  BY JobFacts DEF PlacesOf
<1>2. call[job.call].surface \in Editable
  BY <1>1 DEF IInv, PlacesFit
<1> QED
  BY <1>1, <1>2 DEF Job, Edit, IInv, CallsKeepTheirLane

\* Steps that have nothing to do with edits: no edit joins a lane or is granted,
\* no call begins or ends one, and editable surfaces stay as they are.
Quiet ==
    /\ due' = due
    /\ \A e \in Editable : shown'[e] = shown[e]
    /\ \A l \in Lanes :
          /\ \A job \in ToSet(pending'[l]) :
                job.part = "edit" => job \in ToSet(pending[l])
          /\ \A c \in Calls : granted'[l] = Edit(c) => granted[l] = Edit(c)
    /\ \A c \in Calls :
          /\ pc'[c] = "edit" <=> pc[c] = "edit"
          /\ pc[c] = "edit" => call'[c] = call[c]

\* A step that shows nothing, admits no edit and ends none leaves it to the
\* same edits to bring the surface up to date.
LEMMA QuietKeepsDue == IInv /\ DueInv /\ Quiet => DueInv'
<1> SUFFICES ASSUME IInv, DueInv, Quiet PROVE DueInv'
  OBVIOUS
<1>1. PendingIsDue'
  <2> SUFFICES ASSUME NEW l \in Lanes, NEW job \in ToSet(pending'[l]),
                      job.part = "edit"
               PROVE  due'[call'[job.call].surface]
                         \in {None, call'[job.call].revision}
    BY DEF PendingIsDue
  <2>1. job \in ToSet(pending[l]) /\ job \in JobsOf(l)
    BY DEF Quiet, JobsOf
  <2>2. job.call \in Calls /\ pc[job.call] = "edit"
    BY <2>1, EditJobs
  <2> QED
    BY <2>1, <2>2 DEF Quiet, DueInv, PendingIsDue
<1>2. ASSUME NEW c \in Calls, NEW s \in Editable
      PROVE  /\ Editing(c, s)' <=> Editing(c, s)
             /\ Editing(c, s) => call'[c] = call[c]
             /\ Editing(c, s) /\ Running(c, "edit")' => Running(c, "edit")
  <2>1. Editing(c, s) => call[c].lane \in Lanes
    BY BusyCall DEF Editing, IInv, Busy
  <2> QED
    BY <2>1 DEF Quiet, Editing, Running, Edit
<1>3. DueIsComing'
  <2> SUFFICES ASSUME NEW s \in Editable, due'[s] # None
               PROVE  \/ \E c \in Calls : Editing(c, s)' /\ call'[c].revision = due'[s]
                      \/ /\ shown'[s] = due'[s]
                         /\ \A c \in Calls : Editing(c, s)' => ~Running(c, "edit")'
    BY DEF DueIsComing
  <2>1. due'[s] = due[s] /\ shown'[s] = shown[s]
    BY DEF Quiet
  <2>2. \/ \E c \in Calls : Editing(c, s) /\ call[c].revision = due[s]
        \/ /\ shown[s] = due[s]
           /\ \A c \in Calls : Editing(c, s) => ~Running(c, "edit")
    BY <2>1 DEF DueInv, DueIsComing
  <2> QED
    BY <1>2, <2>1, <2>2
<1> QED
  BY <1>1, <1>3 DEF DueInv

\* Everything but the admission, the grant and the end of an edit is quiet.
LEMMA QuietSteps ==
    ASSUME IInv, [Next]_vars,
           \A c \in Calls : /\ ~AdmitEdit(c) /\ ~EditApplies(c)
                            /\ ~EditFails(c) /\ ~EditRefused(c),
           \A l \in Lanes : ~Grant(l)
    PROVE  Quiet
<1> USE SurfaceKinds
<1>1. /\ pc \in [Calls -> Places] /\ call \in [Calls -> Call \cup {None}]
      /\ pending \in [Lanes -> Seq(Job)]
      /\ granted \in [Lanes -> Job \cup {None}]
      /\ shown \in [Surfaces -> Revision]
      /\ TypeOK /\ PlacesFit /\ sent \in Messages
  BY DEF IInv, TypeOK
<1> DEFINE LanesOK == \A l \in Lanes :
                         /\ \A job \in ToSet(pending'[l]) :
                               job.part = "edit" => job \in ToSet(pending[l])
                         /\ \A c \in Calls : granted'[l] = Edit(c) => granted[l] = Edit(c)
           CallsOK == \A c \in Calls :
                         /\ pc'[c] = "edit" <=> pc[c] = "edit"
                         /\ pc[c] = "edit" => call'[c] = call[c]
           ChatOK == due' = due /\ \A e \in Editable : shown'[e] = shown[e]
<1>2. ASSUME LanesOK, CallsOK, ChatOK PROVE Quiet
  BY <1>2 DEF Quiet
<1>3. ASSUME NEW c \in Calls, pc[c] # "edit", NEW to \in Places \ {"edit"},
             pc' = [pc EXCEPT ![c] = to],
             \/ call' = call
             \/ \E k \in Call \cup {None} : call' = [call EXCEPT ![c] = k]
      PROVE  CallsOK
  BY <1>1, <1>3
<1>4. UNCHANGED <<pc, call>> => CallsOK
  OBVIOUS
<1>5. UNCHANGED <<due, shown>> => ChatOK
  OBVIOUS
<1>6. UNCHANGED schedulerVars => LanesOK
  BY DEF schedulerVars
<1>7. ASSUME \A l \in Lanes : /\ ToSet(pending'[l]) \subseteq ToSet(pending[l])
                              /\ granted'[l] \in {None, granted[l]}
      PROVE  LanesOK
  <2>1. \A c \in Calls : Edit(c) # None
    BY NoneAssumption DEF Edit, Job
  <2> QED
    BY <1>7, <2>1
<1>8. ASSUME NEW c \in Calls, Appear(c), due' = due PROVE ChatOK
  <2>1. sent + 1 \in Messages
    BY <1>1, <1>8, BoundsAssumption DEF Appear, Messages
  <2> QED
    BY <1>1, <1>8, <2>1 DEF Appear, Surfaces
<1>9. CASE Commit
  BY <1>2, <1>4, <1>5, <1>6, <1>9 DEF Commit, chatVars
<1>10. ASSUME NEW c \in Calls, NEW s \in Surfaces, NEW r \in Revision, Enter(c, s, r)
       PROVE  Quiet
  <2>1. CallsOK
    BY <1>1, <1>10 DEF Enter
  <2> QED
    BY <1>2, <1>5, <1>6, <1>10, <2>1 DEF Enter, chatVars
<1>11. ASSUME NEW c \in Calls, AdmitSend(c) PROVE Quiet
  <2> DEFINE L == call[c].lane
             job == [call |-> c, part |-> "send"]
             rest == RemoveFirstMatch(pending[L], IsLatestWins)
  <2>1. L \in Lanes /\ job \in Job
    BY <1>1, <1>11, BusyCall DEF AdmitSend, Busy, Job
  <2>2. /\ pending' = [pending EXCEPT ![L] = Append(rest, job)] /\ granted' = granted
    BY <1>11 DEF AdmitSend, AcquireLatestWins
  <2>3. rest \in Seq(Job) /\ ToSet(rest) \subseteq ToSet(pending[L])
    BY <1>1, <2>1, DisplacedLane
  <2>4. ToSet(Append(rest, job)) = ToSet(rest) \cup {job}
    BY <2>1, <2>3, ToSetAppend
  <2>5. LanesOK
    BY <1>1, <2>1, <2>2, <2>3, <2>4
  <2> QED
    BY <1>2, <1>3, <1>5, <1>11, <2>5 DEF AdmitSend, Places, chatVars
<1>12. ASSUME NEW c \in Calls, AdmitDelete(c) PROVE Quiet
  <2> DEFINE L == call[c].lane
             job == [call |-> c, part |-> "delete"]
  <2>1. L \in Lanes /\ job \in Job
    BY <1>1, <1>12, BusyCall DEF AdmitDelete, Busy, Job
  <2>2. /\ pending' = [pending EXCEPT ![L] = Append(@, job)] /\ granted' = granted
    BY <1>12 DEF AdmitDelete, Acquire
  <2>3. ToSet(Append(pending[L], job)) = ToSet(pending[L]) \cup {job}
    <3>1. pending[L] \in Seq(Job)
      BY <1>1, <2>1
    <3> HIDE DEF L, job
    <3> QED
      BY <2>1, <3>1, ToSetAppend
  <2>4. LanesOK
    BY <1>1, <2>1, <2>2, <2>3
  <2> QED
    BY <1>2, <1>3, <1>5, <1>12, <2>4 DEF AdmitDelete, Places, chatVars
<1>13. ASSUME NEW c \in Calls, SendSucceeds(c) PROVE Quiet
  <2>1. /\ pc[c] = "send" /\ call[c].lane \in Lanes /\ call[c] \in Call
    BY <1>1, <1>13, BusyCall DEF SendSucceeds, Busy
  <2>2. LanesOK
    BY <1>1, <1>7, <1>13, <2>1 DEF SendSucceeds
  <2>3. CallsOK
    BY <1>1, <1>13, <2>1 DEF SendSucceeds
  <2> QED
    BY <1>2, <1>8, <1>13, <2>2, <2>3 DEF SendSucceeds
<1>14. ASSUME NEW c \in Calls,
              SendFails(c) \/ SendRefused(c) \/ DeleteEnds(c) \/ DeleteRefused(c)
       PROVE  Quiet
  <2>1. /\ \/ Return(c)
           \/ pc' = [pc EXCEPT ![c] = "transfer"] /\ call' = call
        /\ pc[c] \in {"send", "delete"} /\ due' = due
    BY <1>14 DEF SendFails, SendRefused, DeleteEnds, DeleteRefused
  <2>2. \/ Release(c) /\ (Running(c, pc[c]) \/ Refused(c, pc[c]))
        \/ Refused(c, pc[c]) /\ pc[c] # "send" /\ UNCHANGED schedulerVars
    BY <1>14 DEF SendFails, SendRefused, DeleteEnds, DeleteRefused, Drop
  <2>3. LanesOK
    BY <1>7, <2>1, <2>2, EndedCallHasNoJob
  <2>4. CallsOK
    BY <1>3, <2>1 DEF Return, Places
  <2>5. Appear(c) \/ shown' = shown
    BY <1>14 DEF SendFails, SendRefused, DeleteEnds, DeleteRefused, chatVars
  <2>6. ChatOK
    BY <1>5, <1>8, <2>1, <2>5
  <2> QED
    BY <1>2, <2>3, <2>4, <2>6
<1>15. ASSUME NEW l \in Lanes, NEW i \in 1 .. Len(pending[l]), TurnAway(l, i)
       PROVE  Quiet
  <2>1. ToSet(RemoveAt(pending[l], i)) \subseteq ToSet(pending[l])
    BY <1>1, ToSetRemoveAt
  <2>2. LanesOK
    BY <1>1, <1>7, <1>15, <2>1 DEF TurnAway
  <2> QED
    BY <1>2, <1>4, <1>5, <1>15, <2>2 DEF TurnAway, chatVars
<1>16. ASSUME NEW c \in Calls, Transfer(c) PROVE Quiet
  <2>1. CallsOK
    BY <1>3, <1>16 DEF Transfer, Return, Places
  <2> QED
    BY <1>2, <1>5, <1>6, <1>16, <2>1 DEF Transfer, chatVars
<1>17. CASE UNCHANGED vars
  BY <1>2, <1>4, <1>5, <1>6, <1>17 DEF vars, chatVars
<1> QED
  BY <1>9, <1>10, <1>11, <1>12, <1>13, <1>14, <1>15, <1>16, <1>17 DEF Next, Step

\* The end of an edit: its call is gone, and it was the one that held the lane
\* of its surface, if it held it.
LEMMA EditEnds ==
    ASSUME IInv, NEW c \in Calls, EditApplies(c) \/ EditFails(c) \/ EditRefused(c)
    PROVE  /\ pc[c] = "edit" /\ Busy(c) /\ call[c] \in Call
           /\ call[c].surface \in Editable
           /\ call[c].lane \in Lanes
           /\ \A l \in Lanes :
                 /\ ToSet(pending'[l]) \subseteq ToSet(pending[l])
                 /\ granted'[l] \in {None, granted[l]}
                 /\ JobsOf(l)' \subseteq JobsOf(l)
                 /\ \A job \in JobsOf(l)' : job.call # c
           /\ ~EditRefused(c) => granted'[call[c].lane] = None
           /\ pc'[c] = "idle"
           /\ \A d \in Calls \ {c} : pc'[d] = pc[d] /\ call'[d] = call[d]
<1>1. /\ pc[c] = "edit" /\ Busy(c) /\ Return(c)
      /\ \/ Release(c) /\ (Running(c, pc[c]) \/ Refused(c, pc[c]))
         \/ Refused(c, pc[c]) /\ pc[c] # "send" /\ UNCHANGED schedulerVars
  BY DEF EditApplies, EditFails, EditRefused, Busy
<1>2. /\ call[c] \in Call /\ call[c].surface \in Editable
      /\ call[c].lane \in Lanes
  BY <1>1, BusyCall DEF IInv, PlacesFit
<1>3. \A l \in Lanes :
         /\ ToSet(pending'[l]) \subseteq ToSet(pending[l])
         /\ granted'[l] \in {None, granted[l]}
         /\ JobsOf(l)' \subseteq JobsOf(l)
         /\ \A job \in JobsOf(l)' : job.call # c
  BY <1>1, EndedCallHasNoJob
<1>4. /\ pc'[c] = "idle"
      /\ \A d \in Calls \ {c} : pc'[d] = pc[d] /\ call'[d] = call[d]
  BY <1>1 DEF Return, IInv, TypeOK
<1>5. ASSUME ~EditRefused(c) PROVE granted'[call[c].lane] = None
  BY <1>2, <1>5 DEF EditApplies, EditFails, Release, Running, IInv, TypeOK
<1> QED
  BY <1>1, <1>2, <1>3, <1>4, <1>5

\* What an admitted edit does to its lane: it waits there alone.
LEMMA EditAdmitted ==
    ASSUME IInv, NEW c \in Calls, AdmitEdit(c)
    PROVE  /\ pc[c] = "admit" /\ Busy(c) /\ call[c] \in Call
           /\ call[c].surface \in Editable
           /\ call[c].lane \in Lanes /\ lanes[call[c].surface] = call[c].lane
           /\ granted' = granted /\ call' = call
           /\ pc' = [pc EXCEPT ![c] = "edit"]
           /\ due' = [due EXCEPT ![call[c].surface] = call[c].revision]
           /\ shown' = shown
           /\ Edit(c) \in ToSet(pending'[call[c].lane])
           /\ \A job \in ToSet(pending'[call[c].lane]) :
                 IsLatestWins(job) => job = Edit(c)
           /\ \A l \in Lanes \ {call[c].lane} : pending'[l] = pending[l]
<1> DEFINE L == call[c].lane
           rest == RemoveFirstMatch(pending[L], IsLatestWins)
<1>1. /\ pc[c] = "admit" /\ Busy(c) /\ call[c] \in Call
      /\ call[c].surface \in Editable /\ L \in Lanes
      /\ lanes[call[c].surface] = L
  BY BusyCall DEF IInv, AdmitEdit, Busy, CallsKeepTheirLane
<1>2. /\ pending \in [Lanes -> Seq(Job)] /\ IsInjective(pending[L])
      /\ \A i, j \in ToSet(pending[L]) :
            IsLatestWins(i) /\ IsLatestWins(j) => i = j
  BY <1>1 DEF IInv, TypeOK, QueueOK, JobsAreSingle, OneRenderWaits
<1>3. /\ rest \in Seq(Job)
      /\ \A i \in ToSet(rest) : ~IsLatestWins(i)
  BY <1>1, <1>2, DisplacedLane
<1>4. pending' = [pending EXCEPT ![L] = Append(rest, Edit(c))]
  BY DEF AdmitEdit, AcquireLatestWins, Edit
<1>a. Edit(c) \in Job
  BY DEF Edit, Job
<1> HIDE DEF L, rest
<1>5. ToSet(Append(rest, Edit(c))) = ToSet(rest) \cup {Edit(c)}
  BY <1>3, <1>a, ToSetAppend
<1>6. /\ pending'[L] = Append(rest, Edit(c))
      /\ \A l \in Lanes \ {L} : pending'[l] = pending[l]
  BY <1>1, <1>2, <1>4
<1> QED
  BY <1>1, <1>3, <1>5, <1>6 DEF L, AdmitEdit, AcquireLatestWins, chatVars

\* No step breaks the promise that the revision admitted last is shown in the
\* end.
LEMMA DueStep == IInv /\ DueInv /\ [Next]_vars => DueInv'
<1> SUFFICES ASSUME IInv, DueInv, [Next]_vars PROVE DueInv'
  OBVIOUS
<1> USE SurfaceKinds DEF Surfaces
<1>1. /\ TypeOK
      /\ pc \in [Calls -> Places] /\ call \in [Calls -> Call \cup {None}]
      /\ due \in [Surfaces -> Revision \cup {None}]
      /\ shown \in [Surfaces -> Revision]
      /\ granted \in [Lanes -> Job \cup {None}]
  BY DEF IInv, TypeOK
<1>2. \A c \in Calls : \A s \in Editable :
         Editing(c, s) => call[c].lane = lanes[s] /\ lanes[s] \in Lanes
  BY <1>1, BusyCall DEF Editing, Busy, IInv, CallsKeepTheirLane
<1>3. ASSUME NEW c \in Calls, AdmitEdit(c) PROVE DueInv'
  <2> DEFINE S == call[c].surface
             R == call[c].revision
             L == call[c].lane
  <2>1. /\ pc[c] = "admit" /\ call[c] \in Call /\ R \in Revision
        /\ S \in Editable /\ L \in Lanes /\ lanes[S] = L
        /\ granted' = granted /\ call' = call /\ shown' = shown
        /\ pc' = [pc EXCEPT ![c] = "edit"]
        /\ due' = [due EXCEPT ![S] = R]
        /\ \A job \in ToSet(pending'[L]) : IsLatestWins(job) => job = Edit(c)
        /\ \A l \in Lanes \ {L} : pending'[l] = pending[l]
    BY <1>3, EditAdmitted DEF Call
  <2> HIDE DEF S, R, L
  <2>2. PendingIsDue'
    <3> SUFFICES ASSUME NEW l \in Lanes, NEW job \in ToSet(pending'[l]),
                        job.part = "edit"
                 PROVE  due'[call[job.call].surface]
                           \in {None, call[job.call].revision}
      BY <2>1 DEF PendingIsDue
    <3>1. CASE l = L
      <4>1. job.call = c
        BY <2>1, <3>1 DEF IsLatestWins, Edit
      <4> QED
        BY <1>1, <2>1, <4>1 DEF S, R
    <3>2. CASE l # L
      <4>1. job \in ToSet(pending[l])
        BY <2>1, <3>2
      <4>2. /\ lanes[call[job.call].surface] = l
            /\ call[job.call].surface \in Editable
        BY <4>1, EditJobs DEF JobsOf
      <4>3. due'[call[job.call].surface] = due[call[job.call].surface]
        BY <1>1, <2>1, <3>2, <4>2
      <4> QED
        BY <4>1, <4>3 DEF DueInv, PendingIsDue
    <3> QED
      BY <3>1, <3>2
  <2>3. DueIsComing'
    <3> SUFFICES ASSUME NEW s \in Editable, due'[s] # None
                 PROVE  \/ \E d \in Calls : Editing(d, s)' /\ call[d].revision = due'[s]
                        \/ /\ shown[s] = due'[s]
                           /\ \A d \in Calls : Editing(d, s)' => ~Running(d, "edit")'
      BY <2>1 DEF DueIsComing
    <3>1. CASE s = S
      BY <1>1, <2>1, <3>1 DEF Editing, S, R
    <3>2. CASE s # S
      <4>1. due'[s] = due[s]
        BY <1>1, <2>1, <3>2
      <4>2. \A d \in Calls : /\ Editing(d, s)' <=> Editing(d, s)
                             /\ Running(d, "edit")' <=> Running(d, "edit")
        BY <1>1, <2>1, <3>2 DEF Editing, Running, S
      <4> QED
        BY <4>1, <4>2 DEF DueInv, DueIsComing
    <3> QED
      BY <3>1, <3>2
  <2> QED
    BY <2>2, <2>3 DEF DueInv
<1>4. ASSUME NEW c \in Calls, EditApplies(c) \/ EditFails(c) \/ EditRefused(c)
      PROVE  DueInv'
  <2> DEFINE S == call[c].surface
             R == call[c].revision
             L == call[c].lane
  <2>1. /\ pc[c] = "edit" /\ call[c] \in Call /\ R \in Revision
        /\ S \in Editable /\ L \in Lanes /\ L = lanes[S] /\ Editing(c, S)
        /\ \A l \in Lanes :
              /\ ToSet(pending'[l]) \subseteq ToSet(pending[l])
              /\ granted'[l] \in {None, granted[l]}
              /\ JobsOf(l)' \subseteq JobsOf(l)
              /\ \A job \in JobsOf(l)' : job.call # c
        /\ pc'[c] = "idle"
        /\ \A d \in Calls \ {c} : pc'[d] = pc[d] /\ call'[d] = call[d]
        /\ ~EditRefused(c) => granted'[L] = None
    BY <1>2, <1>4, EditEnds DEF Call, Editing
  <2>2. \/ /\ EditApplies(c) /\ Running(c, "edit") /\ due' = due
           /\ shown' = [shown EXCEPT ![S] = R]
        \/ /\ shown' = shown
           /\ due' = IF due[S] = R THEN [due EXCEPT ![S] = None] ELSE due
    BY <1>4 DEF EditApplies, EditFails, EditRefused, Excuse, chatVars
  <2> HIDE DEF S, R, L
  <2>3. \A s \in Editable : due'[s] # None => due'[s] = due[s]
    BY <1>1, <2>1, <2>2
  <2>4. PendingIsDue'
    <3> SUFFICES ASSUME NEW l \in Lanes, NEW job \in ToSet(pending'[l]),
                        job.part = "edit"
                 PROVE  due'[call'[job.call].surface]
                           \in {None, call'[job.call].revision}
      BY DEF PendingIsDue
    <3>1. job \in ToSet(pending[l]) /\ job \in JobsOf(l)' /\ job \in JobsOf(l)
      BY <2>1 DEF JobsOf
    <3>2. /\ job.call \in Calls \ {c} /\ call[job.call].surface \in Editable
      BY <2>1, <3>1, EditJobs
    <3>3. due[call[job.call].surface] \in {None, call[job.call].revision}
      BY <3>1 DEF DueInv, PendingIsDue
    <3> QED
      BY <2>1, <2>3, <3>2, <3>3
  <2>5. DueIsComing'
    <3> SUFFICES ASSUME NEW s \in Editable, due'[s] # None
                 PROVE  \/ \E d \in Calls : Editing(d, s)' /\ call'[d].revision = due'[s]
                        \/ /\ shown'[s] = due'[s]
                           /\ \A d \in Calls : Editing(d, s)' => ~Running(d, "edit")'
      BY DEF DueIsComing
    <3>1. due'[s] = due[s] /\ due[s] # None
      BY <2>3
    <3>2. ASSUME NEW d \in Calls, d # c, Editing(d, s), call[d].revision = due[s]
          PROVE  Editing(d, s)' /\ call'[d].revision = due'[s]
      BY <2>1, <3>1, <3>2 DEF Editing
    <3>3. \A d \in Calls : Editing(d, s)' => /\ d # c /\ Editing(d, s)
                                            /\ call'[d] = call[d]
      BY <2>1 DEF Editing
    <3>4. ASSUME NEW d \in Calls, Editing(d, s)', Running(d, "edit")'
          PROVE  Running(d, "edit")
      <4>1. call'[d] = call[d] /\ call[d].lane \in Lanes
        BY <1>2, <3>3, <3>4
      <4>2. Edit(d) # None
        BY NoneAssumption DEF Edit, Job
      <4> QED
        BY <2>1, <3>4, <4>1, <4>2 DEF Running, Edit
    <3>5. \/ \E d \in Calls : Editing(d, s) /\ call[d].revision = due[s]
          \/ /\ shown[s] = due[s]
             /\ \A d \in Calls : Editing(d, s) => ~Running(d, "edit")
      BY <3>1 DEF DueInv, DueIsComing
    <3>6. CASE s # S
      <4>1. ~Editing(c, s) /\ shown'[s] = shown[s]
        BY <1>1, <2>1, <2>2, <3>6 DEF Editing, S
      <4> QED
        BY <3>1, <3>2, <3>3, <3>4, <3>5, <4>1
    <3>7. CASE s = S /\ R # due[s]
      <4>1. CASE EditApplies(c) /\ Running(c, "edit")
        <5>1. PICK d \in Calls : Editing(d, s) /\ call[d].revision = due[s]
          BY <2>1, <3>5, <3>7, <4>1
        <5>2. d # c
          BY <3>7, <5>1 DEF R
        <5> QED
          BY <3>2, <5>1, <5>2
      <4>2. CASE shown' = shown
        <5>1. call[c].revision # due[s]
          BY <3>7 DEF R
        <5> QED
          BY <3>1, <3>2, <3>3, <3>4, <3>5, <4>2, <5>1
      <4> QED
        BY <2>2, <4>1, <4>2
    <3>8. CASE s = S /\ R = due[s]
      <4>1. EditApplies(c) /\ shown'[s] = due'[s]
        BY <1>1, <2>1, <2>2, <3>1, <3>8
      <4>2. granted'[L] = None
        BY <2>1, <4>1 DEF EditApplies, EditRefused, Refused
      <4>3. ASSUME NEW d \in Calls, Editing(d, s)', Running(d, "edit")'
            PROVE  FALSE
        <5>1. call'[d].lane = L
          BY <1>2, <2>1, <3>3, <3>8, <4>3
        <5>2. Edit(d) = None
          BY <4>2, <4>3, <5>1 DEF Running, Edit
        <5> QED
          BY <5>2, NoneAssumption DEF Edit, Job
      <4> QED
        BY <4>1, <4>3
    <3> QED
      BY <3>6, <3>7, <3>8
  <2> QED
    BY <2>4, <2>5 DEF DueInv
<1>5. ASSUME NEW l \in Lanes, Grant(l) PROVE DueInv'
  <2>1. /\ pending[l] \in Seq(Job) /\ pending[l] # << >> /\ granted[l] = None
        /\ granted' = [granted EXCEPT ![l] = Head(pending[l])]
        /\ pending' = [pending EXCEPT ![l] = Tail(@)]
        /\ pending \in [Lanes -> Seq(Job)]
        /\ UNCHANGED <<pc, call, due, shown>>
    BY <1>1, <1>5 DEF Grant, IInv, TypeOK, chatVars
  <2>2. /\ Head(pending[l]) \in ToSet(pending[l])
        /\ ToSet(Tail(pending[l])) \subseteq ToSet(pending[l])
    BY <2>1, ToSetTail
  <2>3. PendingIsDue'
    BY <2>1, <2>2 DEF DueInv, PendingIsDue
  <2>4. ASSUME NEW s \in Editable, due[s] # None, NEW c \in Calls,
               Editing(c, s), Running(c, "edit")', ~Running(c, "edit")
        PROVE  call[c].revision = due[s]
    <3>1. call[c].lane = l /\ Edit(c) = Head(pending[l])
      BY <1>1, <1>2, <2>1, <2>4 DEF Running, Edit
    <3>2. Edit(c) \in ToSet(pending[l]) /\ Edit(c).part = "edit" /\ Edit(c).call = c
      BY <2>2, <3>1 DEF Edit
    <3> QED
      BY <2>4, <3>2 DEF DueInv, PendingIsDue, Editing
  <2>5. DueIsComing'
    <3> SUFFICES ASSUME NEW s \in Editable, due[s] # None
                 PROVE  \/ \E c \in Calls : Editing(c, s) /\ call[c].revision = due[s]
                        \/ /\ shown[s] = due[s]
                           /\ \A c \in Calls : Editing(c, s) => ~Running(c, "edit")'
      BY <2>1 DEF DueIsComing, Editing
    <3> QED
      BY <2>4 DEF DueInv, DueIsComing
  <2> QED
    BY <2>3, <2>5 DEF DueInv
<1> QED
  BY <1>3, <1>4, <1>5, QuietSteps, QuietKeepsDue

\* Latest wins: a surface that nobody works on any more shows the revision
\* admitted last, in whatever order the edits ran, were displaced, were turned
\* away or failed, unless that last edit was the one to fail.
THEOREM LatestWins == Spec => []SettledShowsLast
<1>1. Init => DueInv
  <2> SUFFICES ASSUME Init PROVE DueInv
    OBVIOUS
  <2>1. \A l \in Lanes : ToSet(pending[l]) = {}
    BY ToSetEmpty DEF Init
  <2>2. \A s \in Editable : due[s] = None
    BY DEF Init, Surfaces
  <2> QED
    BY <2>1, <2>2 DEF DueInv, PendingIsDue, DueIsComing
<1>2. DueInv => SettledShowsLast
  BY DEF DueInv, DueIsComing, SettledShowsLast, Editing
<1> QED
  BY <1>1, <1>2, DueStep, IInvHolds, PTL DEF Spec

-----------------------------------------------------------------------------
(* Revisions in order. *)

\* Nothing is shown, or is to be shown, that was not committed.
RevisionsAreCommitted ==
    /\ \A c \in Calls : Busy(c) => call[c].revision <= committed
    /\ \A e \in Editable : shown[e] <= committed

\* The call on its way to its lane has the newest revision.
NewestIsAdmitted ==
    \A c \in Calls :
       pc[c] = "admit" =>
          /\ \A d \in Calls : Busy(d) => call[d].revision <= call[c].revision
          /\ \A e \in Editable : shown[e] <= call[c].revision

\* An edit in a lane is newer than what its surface shows.
EditsAreNews ==
    \A l \in Lanes, c \in Calls :
       Edit(c) \in JobsOf(l) => shown[call[c].surface] <= call[c].revision

\* It is newer than the edit that the lane is running.
NewestWaits ==
    \A l \in Lanes, c, d \in Calls :
       granted[l] = Edit(c) /\ Edit(d) \in ToSet(pending[l])
       => call[c].revision <= call[d].revision

OrderInv ==
    /\ RevisionsAreCommitted
    /\ NewestIsAdmitted
    /\ EditsAreNews
    /\ NewestWaits

\* What a surface shows next, and what a call is to show.
LEMMA RevisionFacts ==
    ASSUME IInv, NEW c \in Calls, Step(c)
    PROVE  /\ Busy(c)
           /\ committed' = committed
           /\ \A e \in Editable :
                 shown'[e] = shown[e] \/ shown'[e] = call[c].revision
           /\ \A d \in Calls : Busy(d)' => Busy(d) /\ call'[d].revision = call[d].revision
           /\ \A d \in Calls : pc'[d] = "admit" => pc[d] = "admit"
<1>1. /\ TypeOK /\ pc \in [Calls -> Places] /\ shown \in [Surfaces -> Revision]
      /\ sent \in Messages
  BY DEF IInv, TypeOK
<1>2. Busy(c) /\ committed' = committed
  BY DEF Step, AdmitEdit, AdmitSend, AdmitDelete, EditApplies, EditFails,
         EditRefused, SendSucceeds, SendFails, SendRefused, DeleteEnds,
         Transfer, DeleteRefused, Busy
<1>3. \E to \in Places \ {"admit"} : pc' = [pc EXCEPT ![c] = to]
  BY DEF Step, AdmitEdit, AdmitSend, AdmitDelete, EditApplies, EditFails,
         EditRefused, SendSucceeds, SendFails, SendRefused, DeleteEnds,
         Transfer, DeleteRefused, Return, Places
<1>4. \/ shown' = shown
      \/ shown' = [shown EXCEPT ![call[c].surface] = call[c].revision]
      \/ /\ sent < MaxMessages
         /\ shown' = [shown EXCEPT ![sent + 1] = call[c].revision]
  BY DEF Step, AdmitEdit, AdmitSend, AdmitDelete, EditApplies, EditFails,
         EditRefused, SendSucceeds, SendFails, SendRefused, DeleteEnds,
         Transfer, DeleteRefused, Appear, chatVars
<1>5. \A e \in Editable : shown'[e] = shown[e] \/ shown'[e] = call[c].revision
  BY <1>1, <1>4 DEF Surfaces
<1>6. \A d \in Calls : Busy(d)' => Busy(d) /\ call'[d].revision = call[d].revision
  BY <1>1, SameCall
<1> QED
  BY <1>1, <1>2, <1>3, <1>5, <1>6

\* Commits and calls come and go in the order of the revisions.
LEMMA RevisionStep ==
    ASSUME InOrder, IInv, OrderInv, [Next]_vars
    PROVE  RevisionsAreCommitted' /\ NewestIsAdmitted'
<1> USE SurfaceKinds
<1>1. /\ TypeOK /\ pc \in [Calls -> Places] /\ call \in [Calls -> Call \cup {None}]
      /\ shown \in [Surfaces -> Revision]
      /\ committed \in Nat
      /\ RevisionsAreCommitted /\ NewestIsAdmitted
  BY DEF IInv, TypeOK, OrderInv
<1>2. /\ \A c \in Calls : Busy(c) => call[c].revision \in Nat
      /\ \A e \in Editable : shown[e] \in Nat
  BY <1>1, BusyCall DEF Surfaces
<1>3. CASE Commit
  BY <1>1, <1>2, <1>3 DEF Commit, chatVars, RevisionsAreCommitted, NewestIsAdmitted, Busy
<1>4. ASSUME NEW c \in Calls, NEW s \in Surfaces, NEW r \in Revision, Enter(c, s, r)
      PROVE  RevisionsAreCommitted' /\ NewestIsAdmitted'
  <2>1. /\ r = committed /\ \A d \in Calls : pc[d] # "admit"
        /\ shown' = shown /\ committed' = committed
    BY <1>4 DEF Enter, MayEnter, chatVars
  <2>2. /\ call'[c].revision = r
        /\ \A d \in Calls \ {c} : pc'[d] = pc[d] /\ call'[d] = call[d]
    BY <1>1, <1>4 DEF Enter
  <2>3. \A d \in Calls : Busy(d)' => call'[d].revision <= committed
    BY <1>1, <1>2, <2>1, <2>2 DEF RevisionsAreCommitted, Busy
  <2>4. \A d \in Calls : pc'[d] = "admit" => d = c
    BY <2>1, <2>2
  <2> QED
    BY <1>1, <2>1, <2>2, <2>3, <2>4 DEF RevisionsAreCommitted, NewestIsAdmitted
<1>5. ASSUME NEW c \in Calls, Step(c)
      PROVE  RevisionsAreCommitted' /\ NewestIsAdmitted'
  <2>1. /\ Busy(c)
        /\ committed' = committed
        /\ \A e \in Editable : shown'[e] = shown[e] \/ shown'[e] = call[c].revision
        /\ \A d \in Calls : Busy(d)' => Busy(d) /\ call'[d].revision = call[d].revision
        /\ \A d \in Calls : pc'[d] = "admit" => pc[d] = "admit"
    BY <1>5, RevisionFacts
  <2>2. RevisionsAreCommitted'
    BY <1>1, <2>1 DEF RevisionsAreCommitted
  <2>3. \A d \in Calls : pc'[d] = "admit" => Busy(d)'
    BY DEF Busy
  <2> QED
    BY <1>1, <2>1, <2>2, <2>3 DEF NewestIsAdmitted
<1>6. CASE UNCHANGED <<pc, call, shown, committed>>
  BY <1>1, <1>6 DEF RevisionsAreCommitted, NewestIsAdmitted, Busy
<1> QED
  BY <1>3, <1>4, <1>5, <1>6 DEF Next, Grant, TurnAway, vars, chatVars

\* Lanes run the edits in the order in which they were admitted.
LEMMA EditOrderStep ==
    ASSUME IInv, OrderInv, [Next]_vars
    PROVE  EditsAreNews' /\ NewestWaits'
<1> USE SurfaceKinds DEF Surfaces
<1>1. /\ TypeOK /\ pc \in [Calls -> Places] /\ call \in [Calls -> Call \cup {None}]
      /\ shown \in [Surfaces -> Revision]
      /\ pending \in [Lanes -> Seq(Job)]
      /\ granted \in [Lanes -> Job \cup {None}]
      /\ EditsAreNews /\ NewestWaits /\ NewestIsAdmitted
  BY DEF IInv, TypeOK, OrderInv
<1>2. /\ \A c \in Calls : Busy(c) => call[c].revision \in Nat
      /\ \A s \in Surfaces : shown[s] \in Nat
  BY <1>1, BusyCall
<1>3. \A c \in Calls : Edit(c).part = "edit" /\ Edit(c).call = c /\ Edit(c) # None
  BY NoneAssumption DEF Edit, Job
<1>4. \A l \in Lanes, c \in Calls :
         Edit(c) \in JobsOf(l) => /\ pc[c] = "edit" /\ Busy(c)
                                  /\ call[c].surface \in Editable
                                  /\ call[c].lane = l
                                  /\ lanes[call[c].surface] = l
  BY <1>3, EditJobs
<1>5. ASSUME NEW c \in Calls, AdmitEdit(c) PROVE EditsAreNews' /\ NewestWaits'
  <2> DEFINE L == call[c].lane
  <2>1. /\ pc[c] = "admit" /\ Busy(c) /\ L \in Lanes
        /\ call[c].surface \in Editable
        /\ granted' = granted /\ call' = call /\ shown' = shown
        /\ \A job \in ToSet(pending'[L]) : IsLatestWins(job) => job = Edit(c)
        /\ \A l \in Lanes \ {L} : pending'[l] = pending[l]
    BY <1>5, EditAdmitted
  <2> HIDE DEF L
  <2>2. ASSUME NEW l \in Lanes, NEW d \in Calls, Edit(d) \in ToSet(pending'[l])
        PROVE  Edit(d) \in ToSet(pending[l]) \/ (d = c /\ l = L)
    <3>1. IsLatestWins(Edit(d))
      BY <1>3 DEF IsLatestWins
    <3> QED
      BY <1>3, <2>1, <2>2, <3>1
  <2>3. EditsAreNews'
    <3> SUFFICES ASSUME NEW l \in Lanes, NEW d \in Calls, Edit(d) \in JobsOf(l)'
                 PROVE  shown[call[d].surface] <= call[d].revision
      BY <2>1 DEF EditsAreNews, Edit
    <3>1. Edit(d) \in JobsOf(l) \/ d = c
      BY <2>1, <2>2 DEF JobsOf
    <3> QED
      BY <1>1, <2>1, <3>1 DEF EditsAreNews, NewestIsAdmitted
  <2>4. NewestWaits'
    <3> SUFFICES ASSUME NEW l \in Lanes, NEW b \in Calls, NEW d \in Calls,
                        granted[l] = Edit(b), Edit(d) \in ToSet(pending'[l])
                 PROVE  call[b].revision <= call[d].revision
      BY <2>1 DEF NewestWaits, Edit
    <3>1. Busy(b)
      BY <1>3, <1>4 DEF JobsOf
    <3> QED
      BY <1>1, <2>1, <2>2, <3>1 DEF NewestWaits, NewestIsAdmitted
  <2> QED
    BY <2>3, <2>4
<1>6. ASSUME NEW c \in Calls, EditApplies(c) \/ EditFails(c) \/ EditRefused(c)
      PROVE  EditsAreNews' /\ NewestWaits'
  <2>1. /\ pc[c] = "edit" /\ call[c].lane \in Lanes /\ call[c].surface \in Editable
        /\ \A l \in Lanes :
              /\ ToSet(pending'[l]) \subseteq ToSet(pending[l])
              /\ granted'[l] \in {None, granted[l]}
              /\ JobsOf(l)' \subseteq JobsOf(l)
              /\ \A job \in JobsOf(l)' : job.call # c
        /\ \A d \in Calls \ {c} : pc'[d] = pc[d] /\ call'[d] = call[d]
    BY <1>6, EditEnds
  <2>2. \A l \in Lanes, d \in Calls :
           Edit(d) \in JobsOf(l)' => Edit(d) \in JobsOf(l) /\ call'[d] = call[d]
    BY <1>3, <2>1
  <2>3. NewestWaits'
    <3> SUFFICES ASSUME NEW l \in Lanes, NEW b \in Calls, NEW d \in Calls,
                        granted'[l] = Edit(b), Edit(d) \in ToSet(pending'[l])
                 PROVE  call'[b].revision <= call'[d].revision
      BY DEF NewestWaits, Edit
    <3>1. Edit(b) \in JobsOf(l)' /\ Edit(d) \in JobsOf(l)'
      BY <1>3 DEF JobsOf
    <3>2. granted[l] = Edit(b) /\ Edit(d) \in ToSet(pending[l])
      BY <1>3, <2>1
    <3> QED
      BY <1>1, <2>2, <3>1, <3>2 DEF NewestWaits
  <2>4. ASSUME NEW l \in Lanes, NEW d \in Calls, Edit(d) \in JobsOf(l)'
        PROVE  shown'[call[d].surface] <= call[d].revision
    <3>1. Edit(d) \in JobsOf(l)
      BY <2>2, <2>4
    <3>2. shown[call[d].surface] <= call[d].revision
      BY <1>1, <3>1 DEF EditsAreNews
    <3>3. CASE EditApplies(c) /\ call[d].surface = call[c].surface
      <4>1. granted[call[c].lane] = Edit(c) /\ call[d].lane = l
        BY <1>4, <3>1, <3>3 DEF EditApplies, Running, Edit
      <4>2. l = call[c].lane
        BY <1>3, <1>4, <2>1, <3>1, <3>3, <4>1 DEF JobsOf
      <4>3. Edit(d) # Edit(c)
        BY <1>3, <2>1, <2>4
      <4>4. Edit(d) \in ToSet(pending[l])
        BY <3>1, <4>1, <4>2, <4>3 DEF JobsOf
      <4>5. call[c].revision <= call[d].revision
        BY <1>1, <4>1, <4>2, <4>4 DEF NewestWaits
      <4> QED
        BY <1>1, <2>1, <3>3, <4>5 DEF EditApplies
    <3>4. CASE ~EditApplies(c)
      BY <1>6, <3>2, <3>4 DEF EditFails, EditRefused, chatVars
    <3>5. CASE EditApplies(c) /\ call[d].surface # call[c].surface
      BY <1>1, <1>4, <3>1, <3>2, <3>5 DEF EditApplies
    <3> QED
      BY <3>3, <3>4, <3>5
  <2>5. EditsAreNews'
    <3> SUFFICES ASSUME NEW l \in Lanes, NEW d \in Calls, Edit(d) \in JobsOf(l)'
                 PROVE  shown'[call'[d].surface] <= call'[d].revision
      BY DEF EditsAreNews, Edit
    <3> QED
      BY <2>2, <2>4
  <2> QED
    BY <2>3, <2>5
<1>7. ASSUME NEW l \in Lanes, Grant(l) PROVE EditsAreNews' /\ NewestWaits'
  <2>1. /\ pending[l] \in Seq(Job) /\ pending[l] # << >> /\ granted[l] = None
        /\ granted' = [granted EXCEPT ![l] = Head(pending[l])]
        /\ pending' = [pending EXCEPT ![l] = Tail(@)]
        /\ UNCHANGED <<pc, call, shown>>
    BY <1>1, <1>7 DEF Grant, chatVars
  <2>2. /\ Head(pending[l]) \in ToSet(pending[l])
        /\ ToSet(Tail(pending[l])) \subseteq ToSet(pending[l])
        /\ Head(pending[l]) \notin ToSet(Tail(pending[l]))
        /\ \A i, j \in ToSet(pending[l]) :
              IsLatestWins(i) /\ IsLatestWins(j) => i = j
    BY <2>1, ToSetTail DEF IInv, QueueOK, JobsAreSingle, OneRenderWaits
  <2>3. \A k \in Lanes : JobsOf(k)' \subseteq JobsOf(k)
    BY <1>1, <2>1, <2>2 DEF JobsOf
  <2>4. EditsAreNews'
    BY <1>1, <2>1, <2>3 DEF EditsAreNews, Edit
  <2>5. NewestWaits'
    <3> SUFFICES ASSUME NEW k \in Lanes, NEW b \in Calls, NEW d \in Calls,
                        granted'[k] = Edit(b), Edit(d) \in ToSet(pending'[k])
                 PROVE  call[b].revision <= call[d].revision
      BY <2>1 DEF NewestWaits, Edit
    <3>1. CASE k = l
      <4>1. IsLatestWins(Edit(b)) /\ IsLatestWins(Edit(d))
        BY <1>3 DEF IsLatestWins
      <4>2. /\ Edit(b) = Head(pending[l])
            /\ Edit(d) \in ToSet(Tail(pending[l]))
        BY <1>1, <2>1, <3>1
      <4> QED
        BY <2>2, <4>1, <4>2
    <3>2. CASE k # l
      BY <1>1, <2>1, <3>2 DEF NewestWaits
    <3> QED
      BY <3>1, <3>2
  <2> QED
    BY <2>4, <2>5
<1>8. CASE Quiet
  <2>1. \A l \in Lanes, c \in Calls :
           /\ Edit(c) \in ToSet(pending'[l]) => Edit(c) \in ToSet(pending[l])
           /\ granted'[l] = Edit(c) => granted[l] = Edit(c)
           /\ Edit(c) \in JobsOf(l)' => Edit(c) \in JobsOf(l)
    BY <1>3, <1>8 DEF Quiet, JobsOf
  <2>2. \A l \in Lanes, c \in Calls :
           Edit(c) \in JobsOf(l)' =>
              /\ call'[c] = call[c] /\ shown'[call[c].surface] = shown[call[c].surface]
    BY <1>4, <1>8, <2>1 DEF Quiet
  <2>3. EditsAreNews'
    <3> SUFFICES ASSUME NEW l \in Lanes, NEW d \in Calls, Edit(d) \in JobsOf(l)'
                 PROVE  shown'[call'[d].surface] <= call'[d].revision
      BY DEF EditsAreNews, Edit
    <3> QED
      BY <1>1, <2>1, <2>2 DEF EditsAreNews
  <2>4. NewestWaits'
    <3> SUFFICES ASSUME NEW l \in Lanes, NEW b \in Calls, NEW d \in Calls,
                        granted'[l] = Edit(b), Edit(d) \in ToSet(pending'[l])
                 PROVE  call'[b].revision <= call'[d].revision
      BY DEF NewestWaits, Edit
    <3>1. Edit(b) \in JobsOf(l)' /\ Edit(d) \in JobsOf(l)'
      BY <1>3 DEF JobsOf
    <3> QED
      BY <1>1, <2>1, <2>2, <3>1 DEF NewestWaits
  <2> QED
    BY <2>3, <2>4
<1> QED
  BY <1>5, <1>6, <1>7, <1>8, QuietSteps

\* Callers that enter the worker one by one, newest revision last, never see an
\* older revision after a newer one, whatever is displaced, turned away or
\* fails on the way.  (Without InOrder it does not hold: SurfaceStale.)
THEOREM NeverAnOlderRevision ==
    ASSUME InOrder
    PROVE  Spec => NeverBackwards
<1>1. Init => OrderInv
  <2> SUFFICES ASSUME Init PROVE OrderInv
    OBVIOUS
  <2>1. \A l \in Lanes : JobsOf(l) = {} /\ ToSet(pending[l]) = {}
    BY ToSetEmpty DEF Init, JobsOf
  <2>2. RevisionsAreCommitted /\ NewestIsAdmitted
    BY DEF Init, RevisionsAreCommitted, NewestIsAdmitted, Busy, Surfaces
  <2> QED
    BY <2>1, <2>2 DEF OrderInv, EditsAreNews, NewestWaits
<1>2. IInv /\ OrderInv /\ [Next]_vars => OrderInv'
  BY RevisionStep, EditOrderStep DEF OrderInv
<1>3. IInv /\ OrderInv /\ [Next]_vars => [\A s \in Editable : shown'[s] >= shown[s]]_vars
  <2> SUFFICES ASSUME IInv, OrderInv, Next, NEW s \in Editable
               PROVE  shown'[s] >= shown[s]
    BY DEF Next
  <2>1. shown \in [Surfaces -> Revision] /\ shown[s] \in Nat
    BY SurfaceKinds DEF IInv, TypeOK, Surfaces
  <2>2. ASSUME NEW c \in Calls, EditApplies(c)
        PROVE  shown'[s] >= shown[s]
    <3>1. /\ Busy(c) /\ call[c].surface \in Surfaces /\ call[c].revision \in Nat
          /\ call[c].lane \in Lanes
      BY <2>2, BusyCall, SurfaceKinds DEF EditApplies, Busy, IInv
    <3>2. Edit(c) \in JobsOf(call[c].lane)
      BY <2>2, NoneAssumption DEF EditApplies, Running, JobsOf, Edit, Job
    <3>3. shown[call[c].surface] <= call[c].revision
      BY <3>1, <3>2 DEF OrderInv, EditsAreNews
    <3> QED
      BY <2>1, <2>2, <3>1, <3>3 DEF EditApplies
  <2>3. CASE \A c \in Calls : ~EditApplies(c)
    <3>1. CASE \E c \in Calls : EditFails(c) \/ EditRefused(c) \/ AdmitEdit(c)
      BY <2>1, <3>1 DEF EditFails, EditRefused, AdmitEdit, chatVars
    <3>2. CASE \E l \in Lanes : Grant(l)
      BY <2>1, <3>2 DEF Grant, chatVars
    <3>3. CASE Quiet
      BY <2>1, <3>3 DEF Quiet
    <3> QED
      BY <2>3, <3>1, <3>2, <3>3, QuietSteps
  <2> QED
    BY <2>2, <2>3
<1> QED
  BY <1>1, <1>2, <1>3, IInvHolds, PTL DEF Spec, NeverBackwards

-----------------------------------------------------------------------------
(* Lines of calls. *)

\* The calls of a lane that runs job g while the jobs p wait.
Line(g, p) ==
    LET running == IF g = None THEN << >> ELSE <<g>>
        jobs == running \o p
    IN  [i \in DOMAIN jobs |-> jobs[i].call]

\* The line of an editable surface has at most two calls.
LEMMA Lines ==
    ASSUME NEW b \in Calls, NEW d \in Calls
    PROVE  /\ Line(None, << >>) = << >>
           /\ Line(None, <<Edit(d)>>) = <<d>>
           /\ Line(Edit(b), << >>) = <<b>>
           /\ Line(Edit(b), <<Edit(d)>>) = <<b, d>>
<1>1. Edit(b) # None /\ Edit(b).call = b /\ Edit(d).call = d
  BY NoneAssumption DEF Edit, Job
<1> HIDE DEF Edit
<1>2. Line(None, << >>) = << >>
  BY <1>1 DEF Line
<1>3. Line(None, <<Edit(d)>>) = <<d>>
  BY <1>1 DEF Line
<1>4. Line(Edit(b), << >>) = <<b>>
  BY <1>1 DEF Line
<1>5. Line(Edit(b), <<Edit(d)>>) = <<b, d>>
  BY <1>1 DEF Line
<1> QED
  BY <1>2, <1>3, <1>4, <1>5

\* What the callers do to a line of none or one.
LEMMA LinesOfOne ==
    ASSUME NEW b \in Calls
    PROVE  /\ RemoveFirst(<< >>, b) = << >> /\ RemoveFirst(<<b>>, b) = << >>
           /\ RemoveAt(<<b>>, 1) = << >>
           /\ Append(<< >>, b) = <<b>> /\ Tail(<<b>>) = << >>
<1>1. Append(<< >>, b) = <<b>> /\ Tail(<<b>>) = << >>
  OBVIOUS
<1> DEFINE none == << >>
           one == <<b>>
<1>2. /\ none \in Seq(Calls) /\ 1 .. Len(none) = {}
      /\ one \in Seq(Calls) /\ Len(one) <= 1 /\ one[1] = b
      /\ 1 \in 1 .. Len(one) /\ \A i \in 1 .. Len(one) : i = 1
  OBVIOUS
<1> HIDE DEF none, one
<1>3. RemoveAt(one, 1) = << >>
  BY <1>2, RemoveOne
<1>4. RemoveFirst(one, b) = RemoveAt(one, 1) /\ RemoveFirst(none, b) = none
  BY <1>2, RemoveFirstProperties
<1> QED
  BY <1>1, <1>3, <1>4 DEF none, one

\* What they do to a line of two.
LEMMA LinesOfTwo ==
    ASSUME NEW b \in Calls, NEW d \in Calls, b # d
    PROVE  /\ RemoveFirst(<<b, d>>, b) = <<d>>
           /\ RemoveAt(<<b, d>>, 2) = <<b>>
           /\ Append(<<b>>, d) = <<b, d>>
           /\ Tail(<<b, d>>) = <<d>>
<1>1. Tail(<<b, d>>) = <<d>>
  OBVIOUS
<1> DEFINE one == <<b>>
           two == <<b, d>>
<1>2. /\ one \in Seq(Calls) /\ Len(one) <= 1 /\ 1 <= Len(one) /\ one[1] = b
      /\ two \in Seq(Calls) /\ Len(two) <= 2 /\ 2 <= Len(two)
      /\ two[1] = b /\ two[2] = d
  OBVIOUS
<1> HIDE DEF one, two
<1>3. /\ 1 \in 1 .. Len(one) /\ 1 \in 1 .. Len(two) /\ 2 \in 1 .. Len(two)
      /\ \A i \in 1 .. Len(two) : two[i] = b => i = 1
  BY <1>2
<1>4. RemoveAt(two, 2) = <<b>> /\ RemoveAt(two, 1) = <<d>>
  BY <1>2, <1>3, RemoveOne
<1>5. RemoveFirst(two, b) = RemoveAt(two, 1)
  BY <1>2, <1>3, RemoveFirstProperties
<1>6. Append(one, d) = <<b, d>>
  <2> DEFINE longer == Append(one, d)
  <2>1. /\ longer \in Seq(Calls) /\ Len(longer) <= Len(one) + 1
        /\ Len(one) + 1 <= Len(longer)
        /\ longer[1] = one[1] /\ longer[Len(one) + 1] = d
    BY <1>2, <1>3, AppendProperties
  <2> HIDE DEF longer
  <2>2. Len(longer) <= 2 /\ 2 <= Len(longer) /\ longer[2] = d
    BY <1>2, <2>1
  <2> QED
    BY <1>2, <2>1, <2>2, ShortSequences DEF longer
<1> QED
  BY <1>1, <1>4, <1>5, <1>6 DEF one, two

\* A call that is not in the line leaves nothing there.
LEMMA AbsentCall ==
    ASSUME NEW b \in Calls, NEW d \in Calls, NEW c \in Calls, c # b, c # d
    PROVE  RemoveFirst(<<b>>, c) = <<b>> /\ RemoveFirst(<<b, d>>, c) = <<b, d>>
<1> DEFINE one == <<b>>
           two == <<b, d>>
<1>1. /\ one \in Seq(Calls) /\ \A i \in 1 .. Len(one) : one[i] # c
      /\ two \in Seq(Calls) /\ \A i \in 1 .. Len(two) : two[i] # c
  OBVIOUS
<1> HIDE DEF one, two
<1>2. RemoveFirst(one, c) = one /\ RemoveFirst(two, c) = two
  BY <1>1, RemoveFirstProperties
<1> QED
  BY <1>2 DEF one, two

-----------------------------------------------------------------------------
(* The refinement mapping. *)

\* The queue of a surface is the line of its lane, before and after a step.
LEMMA QueueIsLine ==
    ASSUME NEW e \in Editable
    PROVE  /\ QueueMap[e] = IF lanes[e] = None THEN << >>
                            ELSE Line(granted[lanes[e]], pending[lanes[e]])
           /\ QueueMap'[e] = IF lanes'[e] = None THEN << >>
                             ELSE Line(granted'[lanes'[e]], pending'[lanes'[e]])
<1>1. \A l : CallsIn(l) = Line(granted[l], pending[l])
  BY DEF CallsIn, Line
<1>2. \A l : CallsIn(l)' = Line(granted'[l], pending'[l])
  BY DEF CallsIn, Line
<1>3. CallsIn(lanes[e])' = Line(granted'[lanes'[e]], pending'[lanes'[e]])
  BY DEF CallsIn, Line
<1> QED
  BY <1>1, <1>3 DEF QueueMap

\* A queue map is a function.
LEMMA QueuesEqual ==
    /\ QueueMap = [e \in Editable |-> QueueMap[e]]
    /\ QueueMap' = [e \in Editable |-> QueueMap'[e]]
  BY DEF QueueMap

\* All that is in the lane of an editable surface are edits of it: one that
\* runs, one that waits.
LEMMA LaneOfEdits ==
    ASSUME IInv, NEW e \in Editable, lanes[e] # None
    PROVE  /\ lanes[e] \in Lanes
           /\ \A job \in JobsOf(lanes[e]) :
                 /\ job.call \in Calls /\ job = Edit(job.call)
                 /\ Editing(job.call, e)
           /\ \/ granted[lanes[e]] = None
              \/ \E b \in Calls : granted[lanes[e]] = Edit(b) /\ Editing(b, e)
           /\ \/ pending[lanes[e]] = << >>
              \/ \E d \in Calls : /\ pending[lanes[e]] = <<Edit(d)>>
                                  /\ Editing(d, e)
                                  /\ granted[lanes[e]] # Edit(d)
<1> DEFINE l == lanes[e]
<1>1. l \in Lanes /\ pending[l] \in Seq(Job) /\ granted[l] \in Job \cup {None}
  BY DEF IInv, TypeOK, Surfaces
<1>3. ASSUME NEW job \in JobsOf(l)
      PROVE  /\ job.call \in Calls /\ job = Edit(job.call)
             /\ Editing(job.call, e) /\ job.part = "edit"
  <2>1. /\ job \in Job /\ job.call \in Calls /\ Busy(job.call)
        /\ call[job.call].lane = l /\ pc[job.call] \in PlacesOf(job.part)
    BY <1>1, JobFacts
  <2>2. call[job.call].surface = e /\ e \notin Messages
    BY <2>1, SurfaceKinds DEF IInv, CallsKeepTheirLane
  <2>3. pc[job.call] \notin {"admitDelete", "send", "delete"}
    BY <2>1, <2>2 DEF IInv, PlacesFit
  <2>4. job.part = "edit" /\ pc[job.call] = "edit"
    BY <2>1, <2>3 DEF PlacesOf, Job
  <2> QED
    BY <2>1, <2>2, <2>4 DEF Job, Edit, Editing
<1>4. \/ granted[l] = None
      \/ \E b \in Calls : granted[l] = Edit(b) /\ Editing(b, e)
  BY <1>3 DEF JobsOf
<1>5. /\ ToSet(pending[l]) \subseteq JobsOf(l)
      /\ ToSet(pending[l]) = {pending[l][i] : i \in 1 .. Len(pending[l])}
      /\ \A i, j \in 1 .. Len(pending[l]) : pending[l][i] = pending[l][j] => i = j
      /\ \A i, j \in ToSet(pending[l]) : IsLatestWins(i) /\ IsLatestWins(j) => i = j
      /\ granted[l] \notin ToSet(pending[l])
  BY <1>1, ToSetMembers DEF JobsOf, IInv, QueueOK, JobsAreSingle, OneRenderWaits
<1>6. \A i, j \in 1 .. Len(pending[l]) : i = j
  <2>1. \A job \in ToSet(pending[l]) : IsLatestWins(job)
    <3> TAKE job \in ToSet(pending[l])
    <3>1. job.part = "edit"
      BY <1>3, <1>5
    <3> QED
      BY <3>1 DEF IsLatestWins
  <2>2. \A i \in 1 .. Len(pending[l]) : pending[l][i] \in ToSet(pending[l])
    BY <1>5
  <2>3. \A i, j \in 1 .. Len(pending[l]) : pending[l][i] = pending[l][j]
    BY <1>5, <2>1, <2>2
  <2> QED
    BY <1>5, <2>3
<1>7. \/ pending[l] = << >>
      \/ \E d \in Calls : /\ pending[l] = <<Edit(d)>> /\ Editing(d, e)
                          /\ granted[l] # Edit(d)
  <2> DEFINE p == pending[l]
  <2>1. p \in Seq(Job) /\ \A i, j \in 1 .. Len(p) : i = j
    BY <1>1, <1>6
  <2> HIDE DEF p
  <2>2. Len(p) <= 0 \/ (Len(p) <= 1 /\ 1 <= Len(p))
    <3>1. CASE 2 <= Len(p)
      <4>1. 1 \in 1 .. Len(p) /\ 2 \in 1 .. Len(p)
        BY <2>1, <3>1
      <4> QED
        BY <2>1, <4>1
    <3> QED
      BY <2>1, <3>1
  <2>3. CASE Len(p) <= 0
    BY <2>1, <2>3, ShortSequences DEF p
  <2>4. CASE Len(p) <= 1 /\ 1 <= Len(p)
    <3>1. p = <<p[1]>> /\ 1 \in 1 .. Len(p)
      BY <2>1, <2>4, ShortSequences
    <3>2. p[1] \in ToSet(pending[l])
      BY <1>5, <3>1 DEF p
    <3>3. PICK d \in Calls : p[1] = Edit(d) /\ Editing(d, e)
      BY <1>3, <1>5, <3>2
    <3>4. p = <<Edit(d)>> /\ granted[l] # Edit(d)
      BY <1>5, <3>1, <3>2, <3>3
    <3> QED
      BY <3>3, <3>4 DEF p
  <2> QED
    BY <2>2, <2>3, <2>4
<1> QED
  BY <1>1, <1>3, <1>4, <1>7

\* The shapes of the queue of an editable surface.
LEMMA QueueShapes ==
    ASSUME IInv, NEW e \in Editable, lanes[e] # None
    PROVE  \/ /\ granted[lanes[e]] = None /\ pending[lanes[e]] = << >>
              /\ QueueMap[e] = << >>
           \/ \E d \in Calls :
                 /\ granted[lanes[e]] = None /\ pending[lanes[e]] = <<Edit(d)>>
                 /\ QueueMap[e] = <<d>>
           \/ \E b \in Calls :
                 /\ granted[lanes[e]] = Edit(b) /\ pending[lanes[e]] = << >>
                 /\ QueueMap[e] = <<b>>
           \/ \E b, d \in Calls :
                 /\ b # d
                 /\ granted[lanes[e]] = Edit(b) /\ pending[lanes[e]] = <<Edit(d)>>
                 /\ QueueMap[e] = <<b, d>>
<1>1. QueueMap[e] = Line(granted[lanes[e]], pending[lanes[e]])
  BY QueueIsLine
<1>2. CASE granted[lanes[e]] = None /\ pending[lanes[e]] = << >>
  <2>1. Line(None, << >>) = << >>
    BY DEF Line
  <2> QED
    BY <1>1, <1>2, <2>1
<1>3. CASE granted[lanes[e]] = None /\ pending[lanes[e]] # << >>
  <2>1. PICK d \in Calls : pending[lanes[e]] = <<Edit(d)>>
    BY <1>3, LaneOfEdits
  <2>2. Line(None, <<Edit(d)>>) = <<d>>
    BY Lines
  <2> QED
    BY <1>1, <1>3, <2>1, <2>2
<1>4. CASE granted[lanes[e]] # None /\ pending[lanes[e]] = << >>
  <2>1. PICK b \in Calls : granted[lanes[e]] = Edit(b)
    BY <1>4, LaneOfEdits
  <2>2. Line(Edit(b), << >>) = <<b>>
    BY Lines
  <2> QED
    BY <1>1, <1>4, <2>1, <2>2
<1>5. CASE granted[lanes[e]] # None /\ pending[lanes[e]] # << >>
  <2>1. PICK b \in Calls : granted[lanes[e]] = Edit(b)
    BY <1>5, LaneOfEdits
  <2>2. PICK d \in Calls : /\ pending[lanes[e]] = <<Edit(d)>>
                           /\ granted[lanes[e]] # Edit(d)
    BY <1>5, LaneOfEdits
  <2>3. b # d
    BY <2>1, <2>2
  <2>4. Line(Edit(b), <<Edit(d)>>) = <<b, d>>
    BY Lines
  <2> QED
    BY <1>1, <2>1, <2>2, <2>3, <2>4
<1> QED
  BY <1>2, <1>3, <1>4, <1>5

\* A call touches the lane of its own surface only.
LEMMA OtherQueues ==
    ASSUME IInv, NEW c \in Calls, Step(c), NEW e \in Editable,
           call[c].surface # e
    PROVE  QueueMap'[e] = QueueMap[e]
<1>1. /\ Busy(c) /\ call[c].lane \in Lanes /\ call[c].lane # lanes[e]
  <2>1. Busy(c)
    BY RevisionFacts
  <2> QED
    BY <2>1, BusyCall DEF IInv, CallsKeepTheirLane
<1>2. /\ pending \in [Lanes -> Seq(Job)] /\ granted \in [Lanes -> Job \cup {None}]
      /\ lanes \in [Surfaces -> Lanes \cup {None}]
      /\ e \in Surfaces /\ e \notin Messages
  BY SurfaceKinds DEF IInv, TypeOK, Surfaces
<1>3. lanes'[e] = lanes[e]
  <2>1. CASE Transfer(c)
    <3>1. call[c].surface \in Messages /\ call[c].replacement \in Messages
      BY <2>1 DEF Transfer, IInv, PlacesFit
    <3> QED
      BY <1>2, <2>1, <3>1 DEF Transfer, TransferLane
  <2> QED
    BY <2>1 DEF Step, AdmitEdit, AdmitSend, AdmitDelete, EditApplies, EditFails,
       EditRefused, SendSucceeds, SendFails, SendRefused, DeleteEnds,
       DeleteRefused
<1>4. ASSUME NEW l \in Lanes, l # call[c].lane
      PROVE  pending'[l] = pending[l] /\ granted'[l] = granted[l]
  <2> DEFINE Apart == pending'[l] = pending[l] /\ granted'[l] = granted[l]
  <2>1. ASSUME Release(c) PROVE Apart
    BY <1>1, <1>2, <1>4, <2>1 DEF Release
  <2>2. ASSUME NEW job, Acquire(call[c].lane, job) PROVE Apart
    BY <1>1, <1>2, <1>4, <2>2 DEF Acquire
  <2>3. ASSUME NEW job, AcquireLatestWins(call[c].lane, job) PROVE Apart
    BY <1>1, <1>2, <1>4, <2>3 DEF AcquireLatestWins
  <2>4. ASSUME UNCHANGED schedulerVars PROVE Apart
    BY <2>4 DEF schedulerVars
  <2> SUFFICES Apart
    OBVIOUS
  <2> HIDE DEF Apart
  <2>5. CASE AdmitEdit(c) \/ AdmitSend(c) \/ AdmitDelete(c)
    BY <2>2, <2>3, <2>5 DEF AdmitEdit, AdmitSend, AdmitDelete
  <2>6. CASE EditApplies(c) \/ EditFails(c) \/ EditRefused(c)
    BY <2>1, <2>4, <2>6 DEF EditApplies, EditFails, EditRefused
  <2>7. CASE SendFails(c) \/ SendRefused(c)
    BY <2>1, <2>7 DEF SendFails, SendRefused, Drop
  <2>8. CASE DeleteEnds(c) \/ Transfer(c) \/ DeleteRefused(c)
    BY <2>1, <2>4, <2>8 DEF DeleteEnds, Transfer, DeleteRefused
  <2>9. CASE SendSucceeds(c)
    BY <1>1, <1>2, <1>4, <2>9 DEF SendSucceeds, Apart
  <2> QED
    BY <2>5, <2>6, <2>7, <2>8, <2>9 DEF Step
<1>5. lanes[e] # None =>
         /\ pending'[lanes[e]] = pending[lanes[e]]
         /\ granted'[lanes[e]] = granted[lanes[e]]
  BY <1>1, <1>2, <1>4
<1> QED
  BY <1>3, <1>5, QueueIsLine

\* What the end of the requests of a call looks like from above.
LEMMA Returns ==
    ASSUME TypeOK, NEW c \in Calls,
           \/ Return(c)
           \/ pc' = [pc EXCEPT ![c] = "transfer"] /\ call' = call
    PROVE  /\ PhaseMap' = [PhaseMap EXCEPT ![c] = "idle"]
           /\ WorkMap' = [WorkMap EXCEPT ![c] = None]
<1>1. /\ pc'[c] \in {"idle", "transfer"}
      /\ \A d \in Calls \ {c} : pc'[d] = pc[d] /\ call'[d] = call[d]
  BY DEF Return, TypeOK
<1>2. \A d \in Calls : CallPhase(d)' = IF d = c THEN "idle" ELSE CallPhase(d)
  BY <1>1 DEF CallPhase
<1>3. \A d \in Calls : CallWork(d)' = IF d = c THEN None ELSE CallWork(d)
  BY <1>1 DEF CallWork
<1> QED
  BY <1>2, <1>3 DEF PhaseMap, WorkMap

\* What a call with requests to make, before and after, looks like from above.
LEMMA GoesOn ==
    ASSUME TypeOK, NEW c \in Calls, pc[c] \notin {"idle", "transfer"},
           NEW to \in Places \ {"idle", "transfer"},
           pc' = [pc EXCEPT ![c] = to], call' = call
    PROVE  /\ PhaseMap' = [PhaseMap EXCEPT ![c] = CallPhase(c)']
           /\ WorkMap' = WorkMap
<1>1. /\ pc'[c] = to
      /\ \A d \in Calls \ {c} : pc'[d] = pc[d] /\ call'[d] = call[d]
  BY DEF TypeOK
<1>2. \A d \in Calls : d # c => CallPhase(d)' = CallPhase(d)
  BY <1>1 DEF CallPhase
<1>3. \A d \in Calls : CallWork(d)' = CallWork(d)
  BY <1>1 DEF CallWork
<1> QED
  BY <1>2, <1>3 DEF PhaseMap, WorkMap

\* The queues change with the calls on editable surfaces.
LEMMA QueueChanges ==
    ASSUME IInv, NEW c \in Calls, Step(c)
    PROVE  /\ call[c].surface \in Editable =>
                 QueueMap' = [QueueMap EXCEPT
                                 ![call[c].surface] = QueueMap'[call[c].surface]]
           /\ call[c].surface \in Messages => QueueMap' = QueueMap
<1>1. ASSUME NEW e \in Editable, call[c].surface # e
      PROVE  QueueMap'[e] = QueueMap[e]
  BY <1>1, OtherQueues
<1>4. ASSUME call[c].surface \in Messages PROVE QueueMap' = QueueMap
  <2>1. \A e \in Editable : call[c].surface # e
    BY <1>4, SurfaceKinds
  <2> QED
    BY <1>1, <2>1, QueuesEqual
<1>5. ASSUME call[c].surface \in Editable
      PROVE  QueueMap' = [QueueMap EXCEPT
                             ![call[c].surface] = QueueMap'[call[c].surface]]
  BY <1>1, <1>5, QueuesEqual
<1> QED
  BY <1>4, <1>5

-----------------------------------------------------------------------------
(* Step by step. *)

\* An edit that is admitted joins a queue in which only the running one stays.
LEMMA AdmitStep ==
    ASSUME IInv, NEW c \in Calls, AdmitEdit(c)
    PROVE  Promise!Admit(c)
<1> DEFINE S == call[c].surface
           l == lanes[S]
           rest == RemoveFirstMatch(pending[l], IsLatestWins)
<1>1. /\ pc[c] = "admit" /\ call[c] \in Call /\ S \in Editable /\ S \notin Messages
      /\ l \in Lanes /\ l = call[c].lane /\ l # None
      /\ granted' = granted /\ call' = call
      /\ pc' = [pc EXCEPT ![c] = "edit"]
  BY EditAdmitted, SurfaceKinds
<1>2. pending' = [pending EXCEPT ![l] = Append(rest, Edit(c))]
  BY <1>1 DEF AdmitEdit, AcquireLatestWins, Edit
<1>3. /\ TypeOK /\ pending \in [Lanes -> Seq(Job)]
      /\ IsInjective(pending[l])
      /\ \A i, j \in ToSet(pending[l]) :
            IsLatestWins(i) /\ IsLatestWins(j) => i = j
  BY <1>1 DEF IInv, TypeOK, QueueOK, JobsAreSingle, OneRenderWaits
<1>4. rest = << >>
  <2>1. /\ rest \in Seq(Job) /\ ToSet(rest) \subseteq ToSet(pending[l])
        /\ \A i \in ToSet(rest) : ~IsLatestWins(i)
    BY <1>1, <1>3, DisplacedLane
  <2>2. \A i \in ToSet(pending[l]) : i = Edit(i.call)
    BY <1>1, LaneOfEdits DEF JobsOf
  <2>3. \A i : IsLatestWins(Edit(i))
    BY DEF IsLatestWins, Edit
  <2>4. ToSet(rest) = {}
    BY <2>1, <2>2, <2>3
  <2> HIDE DEF rest
  <2> QED
    BY <2>1, <2>4, NothingInside
<1> HIDE DEF rest
<1>5. pending'[l] = <<Edit(c)>>
  <2>1. Append(<< >>, Edit(c)) = <<Edit(c)>>
    OBVIOUS
  <2> QED
    BY <1>1, <1>2, <1>3, <1>4, <2>1
<1>6. QueueMap[S] = Line(granted[l], pending[l])
  BY <1>1, QueueIsLine
<1>7. QueueMap'[S] = Line(granted[l], <<Edit(c)>>)
  BY <1>1, <1>5, QueueIsLine DEF AdmitEdit
<1>8. \E kept \in Promise!Keeps(QueueMap[S]) : QueueMap'[S] = Append(kept, c)
  <2>1. CASE granted[l] = None
    <3>1. Append(<< >>, c) = <<c>>
      OBVIOUS
    <3> QED
      BY <1>7, <2>1, <3>1, Lines DEF Promise!Keeps
  <2>2. CASE granted[l] # None
    <3>1. PICK b \in Calls : granted[l] = Edit(b) /\ b # c
      BY <1>1, <2>2, LaneOfEdits DEF Editing
    <3>2. \/ QueueMap[S] = <<b>>
          \/ \E d \in Calls : QueueMap[S] = <<b, d>>
      <4>1. \A d \in Calls : Edit(d) = Edit(b) => d = b
        BY DEF Edit
      <4> QED
        BY <1>1, <2>2, <3>1, <4>1, QueueShapes
    <3>3. Head(QueueMap[S]) = b /\ QueueMap[S] # << >>
      <4>1. CASE QueueMap[S] = <<b>>
        BY <4>1
      <4>2. ASSUME NEW d \in Calls, QueueMap[S] = <<b, d>>
            PROVE  Head(QueueMap[S]) = b /\ QueueMap[S] # << >>
        BY <4>2
      <4> QED
        BY <3>2, <4>1, <4>2
    <3>4. <<b>> \in Promise!Keeps(QueueMap[S])
      BY <3>3 DEF Promise!Keeps
    <3>5. QueueMap'[S] = Append(<<b>>, c)
      BY <1>7, <3>1, Lines, LinesOfTwo
    <3> QED
      BY <3>4, <3>5
  <2> QED
    BY <2>1, <2>2
<1>9. QueueMap' = [QueueMap EXCEPT ![S] = QueueMap'[S]]
  BY <1>1, QueueChanges DEF Step
<1>10. /\ PhaseMap[c] = "admit" /\ WorkMap[c].surface = S
       /\ PhaseMap' = [PhaseMap EXCEPT ![c] = "edit"] /\ WorkMap' = WorkMap
  <2>1. CallPhase(c) = "admit" /\ CallPhase(c)' = "edit"
    BY <1>1, <1>3 DEF CallPhase, TypeOK
  <2>2. CallWork(c).surface = S
    BY <1>1, NoneAssumption DEF CallWork
  <2> QED
    BY <1>1, <1>3, <2>1, <2>2, GoesOn DEF PhaseMap, WorkMap, Places
<1>11. UNCHANGED chatVars
  BY DEF AdmitEdit
<1> HIDE DEF S
<1> QED
  BY <1>8, <1>9, <1>10, <1>11
  DEF Promise!Admit, Promise!Move, Promise!chatVars, chatVars

\* Projections removes calls the way SurfaceWorker does.
LEMMA SameRemovals ==
    ASSUME NEW q, NEW c, NEW i
    PROVE  /\ Promise!RemoveFirst(q, c) = RemoveFirst(q, c)
           /\ Promise!RemoveAt(q, i) = RemoveAt(q, i)
<1>1. \A j : Promise!RemoveAt(q, j) = RemoveAt(q, j)
  BY DEF Promise!RemoveAt, RemoveAt
<1>2. \A I : Promise!Min(I) = Min(I)
  BY DEF Promise!Min, Min
<1>3. Promise!SelectInSeq(q, LAMBDA v : v = c) = SelectInSeq(q, LAMBDA v : v = c)
  BY <1>2 DEF Promise!SelectInSeq, SelectInSeq
<1>4. Promise!RemoveFirst(q, c) = RemoveFirst(q, c)
  BY <1>1, <1>3 DEF Promise!RemoveFirst, RemoveFirst
<1> QED
  BY <1>1, <1>4

\* The end of an edit, seen from its queue.
LEMMA EditedQueue ==
    ASSUME IInv, NEW c \in Calls, EditApplies(c) \/ EditFails(c) \/ EditRefused(c)
    PROVE  LET s == call[c].surface
           IN  /\ ~EditRefused(c) =>
                     /\ QueueMap[s] # << >> /\ Head(QueueMap[s]) = c
                     /\ QueueMap'[s] = Tail(QueueMap[s])
               /\ QueueMap'[s] = RemoveFirst(QueueMap[s], c)
<1> DEFINE S == call[c].surface
           l == lanes[S]
           own == [call |-> c, part |-> "delete"]
<1>1. /\ pc[c] = "edit" /\ call[c] \in Call /\ S \in Editable
      /\ l \in Lanes /\ l = call[c].lane /\ l # None
      /\ lanes' = lanes
  <2>1. pc[c] = "edit" /\ Busy(c) /\ lanes' = lanes
    BY DEF EditApplies, EditFails, EditRefused, Busy
  <2> QED
    BY <2>1, EditEnds, SurfaceKinds DEF IInv, CallsKeepTheirLane
<1>2. /\ pending \in [Lanes -> Seq(Job)] /\ granted \in [Lanes -> Job \cup {None}]
  BY DEF IInv, TypeOK
<1>3. QueueMap'[S] = Line(granted'[l], pending'[l])
  BY <1>1, QueueIsLine
<1>4. \A b, d \in Calls : Edit(b) = Edit(d) => b = d
  BY DEF Edit
<1>5. \A b \in Calls : Edit(b) # None
  BY NoneAssumption DEF Edit, Job
<1>6. CASE EditRefused(c)
  <2>1. /\ granted'[l] = granted[l] /\ pending'[l] = pending[l]
        /\ granted[l] # Edit(c) /\ Edit(c) \notin ToSet(pending[l])
    BY <1>1, <1>6 DEF EditRefused, Refused, Running, Edit, schedulerVars
  <2>2. QueueMap'[S] = QueueMap[S]
    BY <1>1, <1>3, <2>1, QueueIsLine
  <2>3. \A d \in Calls : pending[l] = <<Edit(d)>> => d # c
    <3> SUFFICES ASSUME pending[l] = <<Edit(c)>> PROVE FALSE
      OBVIOUS
    <3>1. 1 \in DOMAIN pending[l] /\ pending[l][1] = Edit(c)
      OBVIOUS
    <3> QED
      BY <2>1, <3>1 DEF ToSet
  <2>4. RemoveFirst(QueueMap[S], c) = QueueMap[S]
    <3>1. CASE QueueMap[S] = << >>
      BY <3>1, LinesOfOne
    <3>2. ASSUME NEW d \in Calls, pending[l] = <<Edit(d)>>, QueueMap[S] = <<d>>
          PROVE  RemoveFirst(QueueMap[S], c) = QueueMap[S]
      BY <2>3, <3>2, AbsentCall
    <3>3. ASSUME NEW b \in Calls, granted[l] = Edit(b), QueueMap[S] = <<b>>
          PROVE  RemoveFirst(QueueMap[S], c) = QueueMap[S]
      BY <2>1, <3>3, AbsentCall
    <3>4. ASSUME NEW b \in Calls, NEW d \in Calls, granted[l] = Edit(b),
                 pending[l] = <<Edit(d)>>, QueueMap[S] = <<b, d>>
          PROVE  RemoveFirst(QueueMap[S], c) = QueueMap[S]
      BY <2>1, <2>3, <3>4, AbsentCall
    <3> QED
      BY <1>1, <3>1, <3>2, <3>3, <3>4, QueueShapes
  <2> QED
    BY <1>6, <2>2, <2>4
<1>7. CASE ~EditRefused(c)
  <2>1. /\ Release(c) /\ granted[l] = Edit(c) /\ granted'[l] = None
        /\ pending'[l] = RemoveFirst(pending[l], own)
    <3>1. Release(c) /\ granted[l] = Edit(c)
      BY <1>1, <1>7 DEF EditApplies, EditFails, Running, Edit
    <3>2. granted'[l] = None
      BY <1>1, <1>7, EditEnds
    <3>3. pending' = [pending EXCEPT ![l] = RemoveFirst(pending[l], own)]
      BY <1>1, <3>1 DEF Release
    <3> QED
      BY <1>1, <1>2, <3>1, <3>2, <3>3
  <2>2. pending'[l] = pending[l]
    <3>1. pending[l] \in Seq(Job) /\ own \notin ToSet(pending[l])
      <4>1. ASSUME own \in ToSet(pending[l]) PROVE FALSE
        <5>1. own = Edit(own.call)
          BY <1>1, <4>1, LaneOfEdits DEF JobsOf
        <5> QED
          BY <5>1 DEF Edit
      <4> QED
        BY <1>1, <1>2, <4>1
    <3>2. \A i \in 1 .. Len(pending[l]) : pending[l][i] # own
      BY <3>1, ToSetMembers
    <3> HIDE DEF own
    <3> QED
      BY <2>1, <3>1, <3>2, RemoveFirstProperties
  <2> HIDE DEF l, S
  <2>3. \/ pending[l] = << >> /\ QueueMap[S] = <<c>>
        \/ \E d \in Calls : /\ c # d /\ pending[l] = <<Edit(d)>>
                            /\ QueueMap[S] = <<c, d>>
    <3>1. granted[l] # None /\ \A b \in Calls : granted[l] = Edit(b) => b = c
      BY <1>4, <1>5, <2>1
    <3> QED
      BY <1>1, <2>1, <3>1, QueueShapes DEF l
  <2>4. CASE pending[l] = << >> /\ QueueMap[S] = <<c>>
    <3>1. QueueMap'[S] = << >>
      BY <1>3, <2>1, <2>2, <2>4, Lines
    <3>2. Head(<<c>>) = c /\ <<c>> # << >> /\ Tail(<<c>>) = << >>
      OBVIOUS
    <3>3. RemoveFirst(<<c>>, c) = << >>
      BY LinesOfOne
    <3> QED
      BY <1>7, <2>4, <3>1, <3>2, <3>3 DEF S
  <2>5. ASSUME NEW d \in Calls, c # d, pending[l] = <<Edit(d)>>,
               QueueMap[S] = <<c, d>>
        PROVE  /\ QueueMap[S] # << >> /\ Head(QueueMap[S]) = c
               /\ QueueMap'[S] = Tail(QueueMap[S])
               /\ QueueMap'[S] = RemoveFirst(QueueMap[S], c)
    <3>1. QueueMap'[S] = <<d>>
      BY <1>3, <2>1, <2>2, <2>5, Lines
    <3>2. Head(<<c, d>>) = c /\ <<c, d>> # << >> /\ Tail(<<c, d>>) = <<d>>
      OBVIOUS
    <3>3. RemoveFirst(<<c, d>>, c) = <<d>>
      BY <2>5, LinesOfTwo
    <3> QED
      BY <2>5, <3>1, <3>2, <3>3
  <2> QED
    BY <2>3, <2>4, <2>5 DEF S
<1> QED
  BY <1>6, <1>7

\* An edit takes effect in its turn, or fails.
LEMMA EditStep ==
    ASSUME IInv, NEW c \in Calls, EditApplies(c) \/ EditFails(c) \/ EditRefused(c)
    PROVE  Promise!Apply(c) \/ Promise!FailEdit(c)
<1> DEFINE S == call[c].surface
<1>1. /\ TypeOK /\ pc[c] = "edit" /\ call[c] \in Call /\ S \in Editable
      /\ Return(c)
  BY EditEnds DEF EditApplies, EditFails, EditRefused, IInv
<1>2. /\ PhaseMap[c] = "edit"
      /\ WorkMap[c].surface = S /\ WorkMap[c].revision = call[c].revision
  <2>1. CallPhase(c) = "edit"
    BY <1>1 DEF CallPhase
  <2>2. CallWork(c).surface = S /\ CallWork(c).revision = call[c].revision
    BY <1>1, NoneAssumption DEF CallWork
  <2> QED
    BY <2>1, <2>2 DEF PhaseMap, WorkMap
<1>3. /\ PhaseMap' = [PhaseMap EXCEPT ![c] = "idle"]
      /\ WorkMap' = [WorkMap EXCEPT ![c] = None]
  BY <1>1, Returns
<1>4. QueueMap' = [QueueMap EXCEPT ![S] = QueueMap'[S]]
  BY <1>1, QueueChanges DEF Step
<1>5. /\ ~EditRefused(c) => /\ QueueMap[S] # << >> /\ Head(QueueMap[S]) = c
                            /\ QueueMap'[S] = Tail(QueueMap[S])
      /\ QueueMap'[S] = RemoveFirst(QueueMap[S], c)
  BY EditedQueue
<1>6. EditApplies(c) => /\ shown' = [shown EXCEPT ![S] = call[c].revision]
                        /\ UNCHANGED <<sent, live>> /\ ~EditRefused(c)
  BY DEF EditApplies, EditRefused, Refused
<1>7. ~EditApplies(c) => UNCHANGED chatVars
  BY DEF EditFails, EditRefused
<1> HIDE DEF S
<1>8. CASE EditApplies(c)
  BY <1>2, <1>3, <1>4, <1>5, <1>6, <1>8
  DEF Promise!Apply, Promise!Return, Promise!Move
<1>9. CASE ~EditApplies(c)
  BY <1>2, <1>3, <1>4, <1>5, <1>7, <1>9, SameRemovals
  DEF Promise!FailEdit, Promise!Return, Promise!Move, Promise!chatVars, chatVars
<1> QED
  BY <1>8, <1>9

\* What a call on a message looks like from above.
LEMMA MessageCall ==
    ASSUME IInv, NEW c \in Calls,
           \/ pc[c] \in {"admitDelete", "send", "delete"}
           \/ pc[c] = "admit" /\ call[c].surface \in Messages
    PROVE  /\ TypeOK /\ call[c] \in Call /\ call[c].surface \in Messages
           /\ PhaseMap[c] = IF pc[c] = "delete" THEN "delete" ELSE "send"
           /\ WorkMap[c] = [surface |-> call[c].surface,
                            revision |-> call[c].revision,
                            replacement |-> call[c].replacement]
<1>1. /\ TypeOK /\ Busy(c) /\ call[c].surface \in Messages
  BY DEF IInv, PlacesFit, Busy
<1>2. call[c] \in Call /\ call[c] # None
  BY <1>1, BusyCall, NoneAssumption
<1>3. CallPhase(c) = IF pc[c] = "delete" THEN "delete" ELSE "send"
  BY <1>1 DEF CallPhase
<1> QED
  BY <1>1, <1>2, <1>3 DEF PhaseMap, WorkMap, CallWork

\* Waiting in two parts of a lane is nothing that a caller can see.
LEMMA SendAdmitted ==
    ASSUME IInv, NEW c \in Calls, AdmitSend(c) \/ AdmitDelete(c)
    PROVE  UNCHANGED Promise!vars
<1>1. /\ TypeOK /\ call[c].surface \in Messages
      /\ PhaseMap[c] = "send"
  BY MessageCall DEF AdmitSend, AdmitDelete
<1>2. QueueMap' = QueueMap
  BY <1>1, QueueChanges DEF Step
<1>3. CallPhase(c)' = "send"
  BY <1>1 DEF AdmitSend, AdmitDelete, CallPhase, TypeOK
<1>4. PhaseMap' = PhaseMap /\ WorkMap' = WorkMap
  <2>1. /\ PhaseMap' = [PhaseMap EXCEPT ![c] = "send"]
        /\ WorkMap' = WorkMap
    BY <1>1, <1>3, GoesOn DEF AdmitSend, AdmitDelete, Places
  <2> QED
    BY <1>1, <2>1 DEF PhaseMap
<1> QED
  BY <1>2, <1>4 DEF Promise!vars, Promise!chatVars, AdmitSend, AdmitDelete, chatVars

\* The replacement appears.
LEMMA SendStep ==
    ASSUME IInv, NEW c \in Calls, SendSucceeds(c)
    PROVE  Promise!Send(c)
<1>1. /\ TypeOK /\ pc[c] = "send" /\ call[c] \in Call
      /\ call[c].surface \in Messages
      /\ PhaseMap[c] = "send"
      /\ WorkMap[c] = [surface |-> call[c].surface,
                       revision |-> call[c].revision,
                       replacement |-> call[c].replacement]
  BY MessageCall DEF SendSucceeds
<1>2. QueueMap' = QueueMap
  BY <1>1, QueueChanges DEF Step
<1>3. /\ pc'[c] = "delete"
      /\ call'[c] = [call[c] EXCEPT !.replacement = sent + 1]
      /\ \A d \in Calls \ {c} : pc'[d] = pc[d] /\ call'[d] = call[d]
  BY <1>1 DEF SendSucceeds, TypeOK
<1>4. PhaseMap' = [PhaseMap EXCEPT ![c] = "delete"]
  <2>1. \A d \in Calls : CallPhase(d)' = IF d = c THEN "delete" ELSE CallPhase(d)
    BY <1>3 DEF CallPhase
  <2> QED
    BY <2>1 DEF PhaseMap
<1>5. WorkMap' = [WorkMap EXCEPT ![c].replacement = sent + 1]
  <2>1. \A d \in Calls : d # c => CallWork(d)' = CallWork(d)
    BY <1>3 DEF CallWork
  <2>2. CallWork(c) = WorkMap[c]
    BY DEF WorkMap
  <2>3. call'[c] # None
    <3>1. call'[c].surface \in Messages /\ call'[c] \in Call
      <4>1. sent + 1 \in Messages
        BY <1>1, BoundsAssumption DEF SendSucceeds, Appear, Messages, TypeOK
      <4> QED
        BY <1>1, <1>3, <4>1 DEF Call
    <3> QED
      BY <3>1, NoneAssumption
  <2>4. CallWork(c)' = [surface |-> call[c].surface,
                        revision |-> call[c].revision,
                        replacement |-> sent + 1]
    BY <1>1, <1>3, <2>3 DEF CallWork, Call
  <2>5. CallWork(c)' = [CallWork(c) EXCEPT !.replacement = sent + 1]
    BY <1>1, <2>2, <2>4
  <2> QED
    BY <2>1, <2>5 DEF WorkMap
<1> QED
  BY <1>1, <1>2, <1>4, <1>5
  DEF SendSucceeds, Appear, Promise!Send, Promise!Appear, Promise!Move

\* The replacement fails, or nobody learns that it did not.
LEMMA FailSendStep ==
    ASSUME IInv, NEW c \in Calls, SendFails(c) \/ SendRefused(c)
    PROVE  Promise!FailSend(c)
<1>1. Return(c) /\ pc[c] = "send"
  BY DEF SendFails, SendRefused
<1>2. /\ TypeOK /\ call[c].surface \in Messages
      /\ PhaseMap[c] = "send" /\ WorkMap[c].revision = call[c].revision
  <2>1. pc[c] \in {"admitDelete", "send", "delete"}
    BY <1>1
  <2>2. WorkMap[c] = [surface |-> call[c].surface,
                      revision |-> call[c].revision,
                      replacement |-> call[c].replacement]
    BY <2>1, MessageCall
  <2>3. TypeOK /\ call[c].surface \in Messages /\ PhaseMap[c] = "send"
    BY <1>1, <2>1, MessageCall
  <2> QED
    BY <2>2, <2>3
<1>3. QueueMap' = QueueMap
  BY <1>2, QueueChanges DEF Step
<1>4. Appear(c) \/ UNCHANGED chatVars
  BY DEF SendFails, SendRefused
<1> QED
  BY <1>1, <1>2, <1>3, <1>4, Returns
  DEF Appear, chatVars, Promise!FailSend, Promise!Appear, Promise!Return,
      Promise!Move, Promise!chatVars

\* The old message is cleaned up, or stays.
LEMMA CleanupStep ==
    ASSUME IInv, NEW c \in Calls, DeleteEnds(c) \/ DeleteRefused(c)
    PROVE  Promise!Cleanup(c)
<1>1. /\ \/ Return(c)
         \/ pc' = [pc EXCEPT ![c] = "transfer"] /\ call' = call
      /\ pc[c] = "delete"
  BY DEF DeleteEnds, DeleteRefused
<1>2. /\ TypeOK /\ call[c].surface \in Messages
      /\ PhaseMap[c] = "delete" /\ WorkMap[c].surface = call[c].surface
  <2>1. pc[c] \in {"admitDelete", "send", "delete"}
    BY <1>1
  <2>2. WorkMap[c] = [surface |-> call[c].surface,
                      revision |-> call[c].revision,
                      replacement |-> call[c].replacement]
    BY <2>1, MessageCall
  <2>3. TypeOK /\ call[c].surface \in Messages /\ PhaseMap[c] = "delete"
    BY <1>1, <2>1, MessageCall
  <2> QED
    BY <2>2, <2>3
<1>3. QueueMap' = QueueMap
  BY <1>2, QueueChanges DEF Step
<1>4. live' \in {live, live \ {call[c].surface}} /\ UNCHANGED <<sent, shown>>
  BY DEF DeleteEnds, DeleteRefused, chatVars
<1> QED
  BY <1>1, <1>2, <1>3, <1>4, Returns
  DEF Promise!Cleanup, Promise!Return, Promise!Move

\* That the lane moves is nothing that a caller can see.
LEMMA TransferStep ==
    ASSUME IInv, NEW c \in Calls, Transfer(c)
    PROVE  UNCHANGED Promise!vars
<1>1. /\ TypeOK /\ call[c].surface \in Messages /\ pc[c] = "transfer"
  BY DEF Transfer, IInv, PlacesFit
<1>2. QueueMap' = QueueMap
  BY <1>1, QueueChanges DEF Step
<1>3. PhaseMap[c] = "idle" /\ WorkMap[c] = None
  BY <1>1 DEF PhaseMap, WorkMap, CallPhase, CallWork
<1>4. /\ PhaseMap' = [PhaseMap EXCEPT ![c] = "idle"]
      /\ WorkMap' = [WorkMap EXCEPT ![c] = None]
  BY <1>1, Returns DEF Transfer
<1>5. PhaseMap' = PhaseMap /\ WorkMap' = WorkMap
  BY <1>3, <1>4 DEF PhaseMap, WorkMap
<1> QED
  BY <1>2, <1>5 DEF Transfer, chatVars, Promise!vars, Promise!chatVars

-----------------------------------------------------------------------------
(* The steps of the scheduler, and the beginning of a call. *)

\* A lane that grants a job keeps its line.
LEMMA GrantStep ==
    ASSUME IInv, NEW l \in Lanes, Grant(l)
    PROVE  UNCHANGED Promise!vars
<1>1. /\ pending \in [Lanes -> Seq(Job)] /\ granted \in [Lanes -> Job \cup {None}]
      /\ granted[l] = None /\ pending[l] # << >>
      /\ granted' = [granted EXCEPT ![l] = Head(pending[l])]
      /\ pending' = [pending EXCEPT ![l] = Tail(@)]
      /\ UNCHANGED <<lanes, chatVars, pc, call>>
  BY DEF Grant, IInv, TypeOK
<1>2. ASSUME NEW e \in Editable, lanes[e] # None
      PROVE  Line(granted'[lanes[e]], pending'[lanes[e]])
                = Line(granted[lanes[e]], pending[lanes[e]])
  <2>1. CASE lanes[e] = l
    <3>1. PICK d \in Calls : pending[l] = <<Edit(d)>>
      BY <1>1, <1>2, <2>1, LaneOfEdits
    <3>2. Head(<<Edit(d)>>) = Edit(d) /\ Tail(<<Edit(d)>>) = << >>
      OBVIOUS
    <3>3. granted'[l] = Edit(d) /\ pending'[l] = << >>
      BY <1>1, <3>1, <3>2
    <3> QED
      BY <1>1, <2>1, <3>1, <3>3, Lines
  <2>2. CASE lanes[e] # l
    BY <1>1, <2>2
  <2> QED
    BY <2>1, <2>2
<1>3. QueueMap' = QueueMap
  <2>1. \A e \in Editable : QueueMap'[e] = QueueMap[e]
    BY <1>1, <1>2, QueueIsLine
  <2> QED
    BY <2>1, QueuesEqual
<1>4. PhaseMap' = PhaseMap /\ WorkMap' = WorkMap
  BY <1>1 DEF PhaseMap, WorkMap, CallPhase, CallWork
<1> QED
  BY <1>1, <1>3, <1>4 DEF Promise!vars, Promise!chatVars, chatVars

\* A job that is turned away is a call displaced from its queue.
LEMMA TurnAwayStep ==
    ASSUME IInv, NEW l \in Lanes, NEW i \in 1 .. Len(pending[l]), TurnAway(l, i)
    PROVE  Promise!Next \/ UNCHANGED Promise!vars
<1>1. /\ pending \in [Lanes -> Seq(Job)]
      /\ pending' = [pending EXCEPT ![l] = RemoveAt(@, i)]
      /\ UNCHANGED <<granted, lanes, chatVars, pc, call>>
  BY DEF TurnAway, IInv, TypeOK
<1>2. PhaseMap' = PhaseMap /\ WorkMap' = WorkMap
  BY <1>1 DEF PhaseMap, WorkMap, CallPhase, CallWork
<1>3. ASSUME NEW e \in Editable, lanes[e] # l
      PROVE  QueueMap'[e] = QueueMap[e]
  <2>1. lanes[e] # None => pending'[lanes[e]] = pending[lanes[e]]
    BY <1>1, <1>3, LaneOfEdits
  <2> QED
    BY <1>1, <2>1, QueueIsLine
<1>4. CASE \A e \in Editable : lanes[e] # l
  <2>1. QueueMap' = QueueMap
    BY <1>3, <1>4, QueuesEqual
  <2> QED
    BY <1>1, <1>2, <2>1 DEF Promise!vars, Promise!chatVars, chatVars
<1>5. ASSUME NEW e \in Editable, lanes[e] = l
      PROVE  \E k \in 1 .. Len(QueueMap[e]) : Promise!Displace(e, k)
  <2>1. l # None /\ pending[l] # << >>
    <3>1. pending[l] # << >>
      <4>1. ASSUME pending[l] = << >> PROVE FALSE
        <5>1. 1 .. Len(<< >>) = {}
          OBVIOUS
        <5> QED
          BY <4>1, <5>1
      <4> QED
        BY <4>1
    <3> QED
      BY <3>1, SurfaceKinds
  <2>2. PICK d \in Calls : pending[l] = <<Edit(d)>>
    BY <1>5, <2>1, LaneOfEdits
  <2>3. pending'[l] = << >>
    <3> DEFINE p == pending[l]
    <3>1. p \in Seq(Job) /\ Len(p) <= 1 /\ i \in 1 .. Len(p)
      <4>1. Len(<<Edit(d)>>) <= 1
        OBVIOUS
      <4> QED
        BY <1>1, <2>2, <4>1
    <3> HIDE DEF p
    <3>2. RemoveAt(p, i) = << >>
      BY <3>1, RemoveOne
    <3> QED
      BY <1>1, <3>2 DEF p
  <2>4. QueueMap'[e] = Line(granted[l], << >>)
    BY <1>1, <1>5, <2>1, <2>3, QueueIsLine
  <2>5. \E k \in 1 .. Len(QueueMap[e]) : QueueMap'[e] = RemoveAt(QueueMap[e], k)
    <3>1. ASSUME granted[l] = None, QueueMap[e] = <<d>>
          PROVE  1 \in 1 .. Len(QueueMap[e]) /\ QueueMap'[e] = RemoveAt(QueueMap[e], 1)
      <4>1. QueueMap'[e] = << >>
        BY <2>4, <3>1, Lines
      <4>2. 1 \in 1 .. Len(<<d>>)
        OBVIOUS
      <4> QED
        BY <3>1, <4>1, <4>2, LinesOfOne
    <3>2. ASSUME NEW b \in Calls, b # d, granted[l] = Edit(b), QueueMap[e] = <<b, d>>
          PROVE  2 \in 1 .. Len(QueueMap[e]) /\ QueueMap'[e] = RemoveAt(QueueMap[e], 2)
      <4>1. QueueMap'[e] = <<b>>
        BY <2>4, <3>2, Lines
      <4>2. 2 \in 1 .. Len(<<b, d>>)
        OBVIOUS
      <4> QED
        BY <3>2, <4>1, <4>2, LinesOfTwo
    <3>3. \/ granted[l] = None /\ QueueMap[e] = <<d>>
          \/ \E b \in Calls : /\ b # d /\ granted[l] = Edit(b)
                              /\ QueueMap[e] = <<b, d>>
      <4>1. \A b \in Calls : pending[l] = <<Edit(b)>> => b = d
        <5>1. \A x, y : <<x>> = <<y>> => x = y
          OBVIOUS
        <5>2. \A b \in Calls : Edit(b) = Edit(d) => b = d
          BY DEF Edit
        <5> QED
          BY <2>2, <5>1, <5>2
      <4> QED
        BY <1>5, <2>1, <4>1, QueueShapes
    <3> QED
      BY <3>1, <3>2, <3>3
  <2>6. QueueMap' = [QueueMap EXCEPT ![e] = QueueMap'[e]]
    <3>1. \A f \in Editable : f # e => lanes[f] # l
      BY <1>5, <2>1 DEF IInv, LanesAreOwn, Surfaces
    <3> QED
      BY <1>3, <3>1, QueuesEqual
  <2> QED
    BY <1>1, <1>2, <2>5, <2>6, SameRemovals
    DEF Promise!Displace, Promise!chatVars, chatVars
<1> QED
  BY <1>4, <1>5 DEF Promise!Next

\* A surface that is used for the first time has an empty queue.
LEMMA EnterStep ==
    ASSUME IInv, NEW c \in Calls, NEW s \in Surfaces, NEW r \in Revision,
           Enter(c, s, r)
    PROVE  Promise!Enter(c, s, r)
<1>1. /\ TypeOK /\ pc[c] = "idle" /\ (s \in Messages => s <= sent)
      /\ lanes' = [lanes EXCEPT ![s] = LaneOf(s)] /\ LaneOf(s) \in Lanes
      /\ call' = [call EXCEPT ![c] = [surface |-> s, revision |-> r,
                                      lane |-> LaneOf(s), replacement |-> None]]
      /\ pc' = [pc EXCEPT ![c] = "admit"]
      /\ UNCHANGED <<pending, granted, chatVars>>
  BY DEF Enter, IInv, schedulerVars
<1>2. ASSUME NEW e \in Editable
      PROVE  QueueMap'[e] = QueueMap[e]
  <2>1. e \in Surfaces /\ lanes \in [Surfaces -> Lanes \cup {None}]
    BY <1>1 DEF TypeOK, Surfaces
  <2>2. CASE lanes[e] # None \/ e # s
    <3>1. lanes'[e] = lanes[e]
      BY <1>1, <2>1, <2>2 DEF LaneOf
    <3> QED
      BY <1>1, <3>1, QueueIsLine
  <2>3. CASE lanes[e] = None /\ e = s
    <3> DEFINE l == laneCount + 1
    <3>1. l \in Lanes /\ lanes'[e] = l /\ l # None
      BY <1>1, <2>1, <2>3, SurfaceKinds DEF LaneOf
    <3>2. JobsOf(l) = {}
      <4>1. ASSUME NEW job \in JobsOf(l) PROVE FALSE
        <5>1. job.call \in Calls /\ Busy(job.call) /\ call[job.call].lane = l
          BY <3>1, <4>1, JobFacts
        <5>2. l <= laneCount /\ laneCount \in Nat
          BY <1>1, <5>1 DEF IInv, CallsKeepTheirLane, TypeOK
        <5> QED
          BY <5>2
      <4> QED
        BY <4>1
    <3> HIDE DEF l
    <3>3. granted[l] = None /\ pending[l] = << >>
      <4>1. granted[l] = None /\ ToSet(pending[l]) = {} /\ pending[l] \in Seq(Job)
        <5>1. /\ ToSet(pending[l]) \subseteq JobsOf(l)
              /\ granted[l] # None => granted[l] \in JobsOf(l)
          BY DEF JobsOf
        <5>2. ToSet(pending[l]) = {} /\ granted[l] = None
          BY <3>2, <5>1
        <5>3. pending[l] \in Seq(Job)
          BY <1>1, <3>1 DEF TypeOK
        <5> QED
          BY <5>2, <5>3
      <4> QED
        BY <4>1, NothingInside
    <3>4. QueueMap'[e] = Line(None, << >>)
      BY <1>1, <3>1, <3>3, QueueIsLine
    <3>5. QueueMap[e] = << >>
      BY <2>3, QueueIsLine
    <3> QED
      BY <3>4, <3>5, Lines
  <2> QED
    BY <2>2, <2>3
<1>3. QueueMap' = QueueMap
  BY <1>2, QueuesEqual
<1>4. /\ pc'[c] = "admit"
      /\ call'[c] = [surface |-> s, revision |-> r,
                     lane |-> LaneOf(s), replacement |-> None]
      /\ \A d \in Calls \ {c} : pc'[d] = pc[d] /\ call'[d] = call[d]
  BY <1>1 DEF TypeOK
<1>5. PhaseMap' = [PhaseMap EXCEPT ![c] = IF s \in Messages THEN "send" ELSE "admit"]
  <2>1. \A d \in Calls : d # c => CallPhase(d)' = CallPhase(d)
    BY <1>4 DEF CallPhase
  <2>2. CallPhase(c)' = IF s \in Messages THEN "send" ELSE "admit"
    BY <1>4 DEF CallPhase
  <2> QED
    BY <2>1, <2>2 DEF PhaseMap
<1>6. WorkMap' = [WorkMap EXCEPT ![c] = [surface |-> s, revision |-> r,
                                         replacement |-> None]]
  <2>1. \A d \in Calls : d # c => CallWork(d)' = CallWork(d)
    BY <1>4 DEF CallWork
  <2>2. call'[c] # None
    <3>1. [surface |-> s, revision |-> r, lane |-> LaneOf(s), replacement |-> None]
             \in Call
      BY <1>1 DEF Call
    <3> QED
      BY <1>4, <3>1, NoneAssumption
  <2>3. CallWork(c)' = [surface |-> s, revision |-> r, replacement |-> None]
    BY <1>4, <2>2 DEF CallWork
  <2> QED
    BY <2>1, <2>3 DEF WorkMap
<1>7. PhaseMap[c] = "idle"
  BY <1>1 DEF PhaseMap, CallPhase
<1> QED
  BY <1>1, <1>3, <1>5, <1>6, <1>7
  DEF Promise!Enter, Promise!Move, Promise!Messages, Messages, Promise!chatVars,
      chatVars

-----------------------------------------------------------------------------
(* The refinement. *)

\* Both begin with one message in the chat and nothing to do.
LEMMA RefineInit == Init => Promise!Init
<1> SUFFICES ASSUME Init PROVE Promise!Init
  OBVIOUS
<1>1. PhaseMap = [c \in Calls |-> "idle"]
  BY DEF Init, PhaseMap, CallPhase
<1>2. WorkMap = [c \in Calls |-> None]
  BY DEF Init, WorkMap, CallWork
<1>3. QueueMap = [e \in Editable |-> << >>]
  BY DEF Init, QueueMap, Surfaces
<1> QED
  BY <1>1, <1>2, <1>3 DEF Init, Promise!Init, Promise!Surfaces, Promise!Messages,
     Surfaces, Messages

\* Every step of the worker and its lanes is a step their callers may see, or
\* none.
LEMMA RefineStep == IInv /\ [Next]_vars => [Promise!Next]_(Promise!vars)
<1> SUFFICES ASSUME IInv, [Next]_vars
             PROVE  Promise!Next \/ UNCHANGED Promise!vars
  OBVIOUS
<1>1. ASSUME NEW c \in Calls, NEW s \in Surfaces, NEW r \in Revision, Enter(c, s, r)
      PROVE  Promise!Next
  BY <1>1, EnterStep DEF Promise!Next, Surfaces, Messages, Revision,
     Promise!Surfaces, Promise!Messages, Promise!Revision
<1>2. ASSUME NEW c \in Calls, Step(c)
      PROVE  Promise!Step(c) \/ UNCHANGED Promise!vars
  BY <1>2, AdmitStep, EditStep, SendAdmitted, SendStep, FailSendStep, CleanupStep,
     TransferStep
  DEF Step, Promise!Step
<1>3. ASSUME UNCHANGED <<lanes, pending, granted, sent, live, shown, pc, call>>
      PROVE  UNCHANGED Promise!vars
  BY <1>3 DEF Promise!vars, Promise!chatVars, PhaseMap, WorkMap, QueueMap,
     CallPhase, CallWork, CallsIn
<1> QED
  BY <1>1, <1>2, <1>3, GrantStep, TurnAwayStep
  DEF Next, Commit, vars, chatVars, schedulerVars, Promise!Next

\* The worker, its lanes and the scheduler implement what Projections promises,
\* for any calls, surfaces and bounds: an edit takes effect only in its turn,
\* what waits may be dropped but not overtaken, and a message is deleted only
\* once its replacement was sent (surface.rs: project, replace_message).
THEOREM Implementation == Spec => ImplementsProjections
<1>1. Spec => Promise!Spec
  BY RefineInit, RefineStep, IInvHolds, PTL DEF Spec, Promise!Spec
<1> QED
  BY <1>1 DEF ImplementsProjections
=============================================================================
