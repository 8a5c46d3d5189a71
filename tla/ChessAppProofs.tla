---------------------------- MODULE ChessAppProofs ----------------------------
(***************************************************************************)
(* Theorems about the surfaces of one game, for any handlers, any private  *)
(* boards and any bounds on messages and revisions.                        *)
(*                                                                         *)
(* IInv is the inductive invariant.  Its heart is Fresh: the message that  *)
(* a handler has sent and not bound yet is known to nobody else, so that   *)
(* no other handler can delete it, project it or bind it.  SerialInv is    *)
(* the one for a dispatcher that runs one handler at a time; PlayInv adds  *)
(* where a revision goes that has been shown.                              *)
(***************************************************************************)
EXTENDS ChessApp, SequenceLemmas

-----------------------------------------------------------------------------
(* One task. *)

\* The places at which a task has a surface to work on, and a list.
WithJob == {"flip", "bindPrivate", "orientPrivate", "working", "rebind",
            "reorient"}
WithList == {"project", "working", "rebind", "reorient"}

\* What a task is doing agrees with what it is asking of the worker.
TaskOK(t) ==
    /\ at[t] \in WithJob => job[t] # None
    /\ at[t] \notin WithList => todo[t] = {}
    /\ at[t] \in {"idle", "bindFirst", "orientFirst"} => job[t] = None
    /\ at[t] \in {"bindPrivate", "orientPrivate"} =>
          job[t].surface \in PrivateBoards
    /\ at[t] \in {"rebind", "reorient"} =>
          job[t].surface \in Messages /\ job[t].receipt \in Messages
    /\ at[t] = "working" =>
          /\ work[t] = [surface |-> job[t].surface, revision |-> held[t],
                        replacement |-> job[t].receipt]
          /\ phase[t] \in {"admit", "edit"} => job[t].surface \in PrivateBoards
          /\ phase[t] \in {"send", "delete"} => job[t].surface \in Messages
          /\ phase[t] = "delete" <=> job[t].receipt # None

TasksOK == \A t \in Tasks : TaskOK(t)

\* Nothing happens before the first board is bound.
Pristine ==
    (\E t \in Tasks : at[t] = "bindFirst") =>
       /\ \A t \in Tasks : at[t] \in {"idle", "bindFirst"}
       /\ \A t, d \in Tasks : at[t] = "bindFirst" /\ at[d] = "bindFirst" => t = d
       /\ bound = {} /\ live = {1} /\ sent = 1 /\ committed = 0
       /\ shown[1] = 0 /\ facing[1] = FALSE /\ turned = FALSE
       /\ \A t \in Tasks : held[t] = 0

-----------------------------------------------------------------------------
(* Messages. *)

\* Task t could project, bind or delete surface m.
Knows(t, m) ==
    \/ \E spot \in todo[t] : spot.surface = m
    \/ job[t] # None /\ job[t].surface = m

Known(m) == m \in bound \/ \E t \in Tasks : Knows(t, m)

\* Task t has sent a message that it has not bound yet.
Holding(t) ==
    /\ job[t] # None
    /\ job[t].receipt # None
    /\ at[t] \in {"working", "rebind"}

\* Only messages that were sent are known.
KnownAreSent ==
    /\ \A m \in Messages : Known(m) => m <= sent
    /\ \A t \in Tasks : Holding(t) => job[t].receipt <= sent

\* A message that is not bound yet is in the chat, and unknown to others.
Fresh ==
    \A t \in Tasks : Holding(t) =>
       /\ job[t].receipt \in live
       /\ ~Known(job[t].receipt)
       /\ \A d \in Tasks : Holding(d) /\ job[d].receipt = job[t].receipt => d = t

\* What was replaced is not bound again.
ReplacedIsGone ==
    \A t \in Tasks :
       at[t] = "reorient" => /\ job[t].surface \notin bound
                             /\ job[t].surface # job[t].receipt

\* Task t is about to give surface s its orientation.
Orienting(t, s) ==
    \/ at[t] = "orientFirst" /\ s = 1
    \/ at[t] = "orientPrivate" /\ s = job[t].surface
    \/ at[t] = "reorient" /\ s = job[t].receipt

OrientationComes ==
    \A s \in bound : flips[s] # None \/ \E t \in Tasks : Orienting(t, s)

BoardsOK ==
    /\ KnownAreSent
    /\ Fresh
    /\ ReplacedIsGone
    /\ OrientationComes
    /\ DeletedBoardsAreUnbound
    /\ GameStaysReachable

IInv ==
    /\ TypeOK
    /\ TasksOK
    /\ Pristine
    /\ BoardsOK

-----------------------------------------------------------------------------
(* One handler at a time. *)

Active(t) == at[t] # "idle"

OneAtATime == \A t, d \in Tasks : Active(t) /\ Active(d) => t = d

\* What the only active task knows is still so.
UpToDate(t) ==
    /\ held[t] = committed
    /\ at[t] = "orientFirst" =>
          shown[1] = committed /\ facing[1] = FALSE /\ turned = FALSE
    /\ at[t] = "flip" => job[t].surface \in bound
    /\ \A spot \in todo[t] :
          /\ spot.surface \in bound
          /\ spot.flipped = flips[spot.surface]
          /\ at[t] \in {"working", "rebind", "reorient"} =>
                /\ spot.surface # job[t].surface
                /\ job[t].receipt # None => spot.surface # job[t].receipt
    /\ at[t] \in {"working", "rebind"} => job[t].surface \in bound
    /\ at[t] \in {"working", "rebind", "reorient"} =>
          /\ job[t].flipped = flips[job[t].surface]
          /\ job[t].receipt # None =>
                /\ shown[job[t].receipt] = committed
                /\ facing[job[t].receipt] = job[t].flipped
    /\ at[t] = "reorient" => flips[job[t].surface] = turned

\* The game has one board.
OneBoard ==
    \/ \E t \in Tasks : at[t] = "bindFirst"
    \/ \E m \in Messages : Boards = {m}

Agrees(s) == shown[s] = committed /\ facing[s] = flips[s]

\* Task t has yet to bring surface s up to date.
Owes(t, s) ==
    \/ Orienting(t, s)
    \/ at[t] \in {"private", "bindPrivate", "orientPrivate", "engine", "list"}
    \/ [surface |-> s, flipped |-> flips[s]] \in todo[t]
    \/ at[t] \in {"working", "rebind"} /\ s = job[t].surface

AgreementComes ==
    failed \/ \A s \in bound : Agrees(s) \/ \E t \in Tasks : Active(t) /\ Owes(t, s)

\* The board of the game has the orientation its players gave it.
OrientationMoves ==
    \A m \in Boards : flips[m] = turned \/ \E t \in Tasks : Orienting(t, m)

SerialInv ==
    serial => /\ OneAtATime
              /\ \A t \in Tasks : Active(t) => UpToDate(t)
              /\ OneBoard
              /\ AgreementComes
              /\ OrientationMoves

-----------------------------------------------------------------------------
(* What the worker does, in the words of the application. *)

\* The surfaces of a game are its messages and its private boards.
LEMMA Ground ==
    /\ Messages = 1 .. MaxMessages /\ Messages \subseteq Nat /\ 1 \in Messages
    /\ Surfaces = PrivateBoards \cup Messages
    /\ PrivateBoards \cap Messages = {}
    /\ Revision = 0 .. MaxRevision
    /\ None \notin Messages
BY BoundsAssumption
DEF Messages, Surfaces, Revision, Worker!Messages, Worker!Surfaces,
    Worker!Revision

\* What a task asks of the worker.
Asked == [surface : Surfaces, revision : Revision,
          replacement : Messages \cup {None}]

\* The phases of a call.
Phases == {"idle", "admit", "edit", "send", "delete"}

\* The type invariant of Projections, spelled out.
WorkerOK ==
    /\ phase \in [Tasks -> Phases]
    /\ work \in [Tasks -> Asked \cup {None}]
    /\ queue \in [PrivateBoards -> Seq(Tasks)]
    /\ sent \in Messages
    /\ live \subseteq 1 .. sent
    /\ shown \in [Surfaces -> Revision]
    /\ \A t \in Tasks : phase[t] = "idle" <=> work[t] = None

\* It is the same, now and after a step.
LEMMA WorkerTypes ==
    /\ Worker!TypeOK <=> WorkerOK
    /\ Worker!TypeOK' <=> WorkerOK'
    /\ None \notin Asked
BY NoneAssumption
DEF Worker!TypeOK, Worker!Phases, Worker!Work, WorkerOK, Asked, Phases,
    Messages, Surfaces, Revision

\* Where a call goes and what its return forgets.
Moves(t, to) == phase' = [phase EXCEPT ![t] = to]
Returns(t) == Moves(t, "idle") /\ work' = [work EXCEPT ![t] = None]

\* A message appears (src/surface.rs: the send of replace_message).
Appears(t) ==
    /\ sent + 1 \in Messages
    /\ sent' = sent + 1
    /\ live' = live \cup {sent + 1}
    /\ shown' = [shown EXCEPT ![sent + 1] = work[t].revision]

\* The steps of the worker and what each of them changes.
LEMMA WorkerSteps ==
    ASSUME TypeOK, NEW t \in Tasks
    PROVE
    /\ \A s, r : Worker!Enter(t, s, r) =>
          /\ phase[t] = "idle"
          /\ s \in Messages => s <= sent
          /\ work' = [work EXCEPT ![t] = [surface |-> s, revision |-> r,
                                          replacement |-> None]]
          /\ Moves(t, IF s \in Messages THEN "send" ELSE "admit")
          /\ UNCHANGED <<queue, sent, live, shown>>
    /\ Worker!Admit(t) =>
          /\ phase[t] = "admit" /\ Moves(t, "edit")
          /\ UNCHANGED <<work, sent, live, shown>>
    /\ Worker!Apply(t) =>
          /\ phase[t] = "edit" /\ Returns(t)
          /\ shown' = [shown EXCEPT ![work[t].surface] = work[t].revision]
          /\ UNCHANGED <<sent, live>>
    /\ Worker!FailEdit(t) =>
          /\ phase[t] = "edit" /\ Returns(t)
          /\ UNCHANGED <<sent, live, shown>>
    /\ Worker!Send(t) =>
          /\ phase[t] = "send" /\ Moves(t, "delete") /\ Appears(t)
          /\ work' = [work EXCEPT ![t].replacement = sent + 1]
          /\ UNCHANGED queue
    /\ Worker!FailSend(t) =>
          /\ phase[t] = "send" /\ Returns(t)
          /\ Appears(t) \/ UNCHANGED <<sent, live, shown>>
          /\ UNCHANGED queue
    /\ Worker!Cleanup(t) =>
          /\ phase[t] = "delete" /\ Returns(t)
          /\ live' \in {live, live \ {work[t].surface}}
          /\ UNCHANGED <<queue, sent, shown>>
<1>1. sent \in 1 .. MaxMessages /\ MaxMessages \in Nat
  BY WorkerTypes, Ground, BoundsAssumption DEF TypeOK, WorkerOK
<1>2. sent < MaxMessages => sent + 1 \in Messages
  BY <1>1, Ground
<1>3. Worker!Appear(t) => Appears(t)
  BY <1>2 DEF Worker!Appear, Appears
<1>4. /\ \A to : Worker!Move(t, to) => Moves(t, to)
      /\ Worker!Return(t) => Returns(t)
  BY DEF Worker!Move, Worker!Return, Moves, Returns
<1>5. \A s, r : Worker!Enter(t, s, r) =>
          /\ phase[t] = "idle"
          /\ s \in Messages => s <= sent
          /\ work' = [work EXCEPT ![t] = [surface |-> s, revision |-> r,
                                          replacement |-> None]]
          /\ Moves(t, IF s \in Messages THEN "send" ELSE "admit")
          /\ UNCHANGED <<queue, sent, live, shown>>
  BY DEF Worker!Enter, Worker!Move, Moves, Worker!chatVars, Messages
<1>6. Worker!Admit(t) =>
          /\ phase[t] = "admit" /\ Moves(t, "edit")
          /\ UNCHANGED <<work, sent, live, shown>>
  BY <1>4 DEF Worker!Admit, Worker!chatVars
<1>7. Worker!Apply(t) =>
          /\ phase[t] = "edit" /\ Returns(t)
          /\ shown' = [shown EXCEPT ![work[t].surface] = work[t].revision]
          /\ UNCHANGED <<sent, live>>
  BY <1>4 DEF Worker!Apply
<1>8. Worker!FailEdit(t) =>
          /\ phase[t] = "edit" /\ Returns(t)
          /\ UNCHANGED <<sent, live, shown>>
  BY <1>4 DEF Worker!FailEdit, Worker!chatVars
<1>9. Worker!Send(t) =>
          /\ phase[t] = "send" /\ Moves(t, "delete") /\ Appears(t)
          /\ work' = [work EXCEPT ![t].replacement = sent + 1]
          /\ UNCHANGED queue
  BY <1>3, <1>4 DEF Worker!Send
<1>10. Worker!FailSend(t) =>
          /\ phase[t] = "send" /\ Returns(t)
          /\ Appears(t) \/ UNCHANGED <<sent, live, shown>>
          /\ UNCHANGED queue
  BY <1>3, <1>4 DEF Worker!FailSend, Worker!chatVars
<1>11. Worker!Cleanup(t) =>
          /\ phase[t] = "delete" /\ Returns(t)
          /\ live' \in {live, live \ {work[t].surface}}
          /\ UNCHANGED <<queue, sent, shown>>
  BY <1>4 DEF Worker!Cleanup
<1> QED
  BY <1>5, <1>6, <1>7, <1>8, <1>9, <1>10, <1>11

\* Projections removes tasks from a queue with the operators of the library.
LEMMA SameRemovals ==
    ASSUME NEW q, NEW t, NEW i
    PROVE  /\ Worker!RemoveFirst(q, t) = RemoveFirst(q, t)
           /\ Worker!RemoveAt(q, i) = RemoveAt(q, i)
<1>1. \A j : Worker!RemoveAt(q, j) = RemoveAt(q, j)
  BY DEF Worker!RemoveAt, RemoveAt
<1>2. \A I : Worker!Min(I) = Min(I)
  BY DEF Worker!Min, Min
<1>3. Worker!SelectInSeq(q, LAMBDA v : v = t) = SelectInSeq(q, LAMBDA v : v = t)
  BY <1>2 DEF Worker!SelectInSeq, SelectInSeq
<1>4. Worker!RemoveFirst(q, t) = RemoveFirst(q, t)
  BY <1>1, <1>3 DEF Worker!RemoveFirst, RemoveFirst
<1> QED
  BY <1>1, <1>4

\* The queues stay sequences of tasks.
LEMMA QueuesAreLines ==
    ASSUME TypeOK, NEW t \in Tasks,
           \/ Worker!Admit(t) \/ Worker!Apply(t) \/ Worker!FailEdit(t)
           \/ \E s \in PrivateBoards :
                 \E i \in 1 .. Len(queue[s]) : Worker!Displace(s, i)
    PROVE  queue' \in [PrivateBoards -> Seq(Tasks)]
<1>1. queue \in [PrivateBoards -> Seq(Tasks)]
  BY WorkerTypes DEF TypeOK, WorkerOK
<1>2. ASSUME NEW s, NEW q, s \in PrivateBoards => q \in Seq(Tasks),
             queue' = [queue EXCEPT ![s] = q]
      PROVE  queue' \in [PrivateBoards -> Seq(Tasks)]
  BY <1>1, <1>2
<1>3. CASE Worker!Admit(t)
  <2>1. PICK kept \in Worker!Keeps(queue[work[t].surface]) :
           queue' = [queue EXCEPT ![work[t].surface] = Append(kept, t)]
    BY <1>3 DEF Worker!Admit
  <2>2. ASSUME work[t].surface \in PrivateBoards
        PROVE  Append(kept, t) \in Seq(Tasks)
    <3> DEFINE q == queue[work[t].surface]
    <3>1. q \in Seq(Tasks)
      BY <1>1, <2>2
    <3>2. kept = << >> \/ (q # << >> /\ kept = <<Head(q)>>)
      BY <2>1 DEF Worker!Keeps
    <3>3. q # << >> => Head(q) \in Tasks
      BY <3>1
    <3>4. << >> \in Seq(Tasks)
      BY EmptySeq
    <3>5. q # << >> => <<Head(q)>> \in Seq(Tasks)
      BY <3>3
    <3>6. kept \in Seq(Tasks)
      BY <3>2, <3>4, <3>5
    <3> QED
      BY <3>6
  <2> QED
    BY <1>2, <2>1, <2>2
<1>4. CASE Worker!Apply(t)
  <2> DEFINE s == work[t].surface
  <2>1. queue' = [queue EXCEPT ![s] = Tail(queue[s])] /\ queue[s] # << >>
    BY <1>4 DEF Worker!Apply
  <2>2. s \in PrivateBoards => Tail(queue[s]) \in Seq(Tasks)
    BY <1>1, <2>1
  <2> QED
    BY <1>2, <2>1, <2>2
<1>5. CASE Worker!FailEdit(t)
  <2> DEFINE s == work[t].surface
  <2>1. queue' = [queue EXCEPT ![s] = RemoveFirst(queue[s], t)]
    BY <1>5, SameRemovals DEF Worker!FailEdit
  <2>2. s \in PrivateBoards => RemoveFirst(queue[s], t) \in Seq(Tasks)
    BY <1>1, ToSetRemoveFirst
  <2> QED
    BY <1>2, <2>1, <2>2
<1>6. ASSUME NEW s \in PrivateBoards, NEW i \in 1 .. Len(queue[s]),
             Worker!Displace(s, i)
      PROVE  queue' \in [PrivateBoards -> Seq(Tasks)]
  <2>1. queue' = [queue EXCEPT ![s] = RemoveAt(queue[s], i)]
    BY <1>6, SameRemovals DEF Worker!Displace
  <2>2. RemoveAt(queue[s], i) \in Seq(Tasks)
    BY <1>1, ToSetRemoveAt
  <2> QED
    BY <1>2, <2>1, <2>2
<1> QED
  BY <1>3, <1>4, <1>5, <1>6

-----------------------------------------------------------------------------
(* The steps of one task leave the others alone and keep the types. *)

\* A step of task t, its click included.
OwnStep(t) == Step(t) \/ \E s \in Surfaces : Receive(t, s)

Others(t) ==
    \A d \in Tasks \ {t} :
       /\ at'[d] = at[d] /\ held'[d] = held[d]
       /\ job'[d] = job[d] /\ todo'[d] = todo[d]
       /\ phase'[d] = phase[d] /\ work'[d] = work[d]

TaskTypes ==
    /\ at \in [Tasks -> Places]
    /\ held \in [Tasks -> Revision]
    /\ job \in [Tasks -> Job \cup {None}]
    /\ todo \in [Tasks -> SUBSET Spot]

\* What a task works on is a surface.
LEMMA JobTypes ==
    ASSUME TypeOK, TasksOK, NEW t \in Tasks, at[t] \in WithJob
    PROVE  /\ job[t] \in Job /\ job[t] # None
           /\ job[t].surface \in Surfaces /\ job[t].flipped \in BOOLEAN
           /\ job[t].receipt \in Messages \cup {None}
<1>1. job[t] \in Job
  BY DEF TypeOK, TasksOK, TaskOK
<1> QED
  BY <1>1, NoneAssumption DEF Job

\* The values a task can be given.
LEMMA NewJob ==
    ASSUME NEW s \in Surfaces, NEW f \in BOOLEAN
    PROVE  [surface |-> s, flipped |-> f, receipt |-> None] \in Job
BY DEF Job

\* A flip turns the board round.
LEMMA FlipTypes ==
    ASSUME TypeOK, NEW s \in Surfaces, flips[s] # None
    PROVE  flips[s] \in BOOLEAN /\ (~flips[s]) \in BOOLEAN
BY DEF TypeOK

\* The revision a task holds after a commit.
LEMMA CommitTypes ==
    ASSUME TypeOK, NEW t \in Tasks, ~Conflicts(t)
    PROVE  held[t] = committed /\ committed + 1 \in Revision
<1>1. committed \in Nat /\ MaxRevision \in Nat /\ committed <= MaxRevision
  BY Ground, BoundsAssumption DEF TypeOK
<1> QED
  BY <1>1, Ground DEF Conflicts

\* One task moves, and its record, job and list keep their types.
LEMMA TaskFrame ==
    ASSUME TypeOK, TasksOK, NEW t \in Tasks, OwnStep(t)
    PROVE  /\ TaskTypes'
           /\ \A d \in Tasks \ {t} :
                 /\ at'[d] = at[d] /\ held'[d] = held[d]
                 /\ job'[d] = job[d] /\ todo'[d] = todo[d]
<1> DEFINE Goal == /\ TaskTypes'
                   /\ \A d \in Tasks \ {t} :
                         /\ at'[d] = at[d] /\ held'[d] = held[d]
                         /\ job'[d] = job[d] /\ todo'[d] = todo[d]
<1>0. TaskTypes /\ 0 \in Revision /\ 1 \in Surfaces
  BY Ground, BoundsAssumption DEF TypeOK, TaskTypes
<1>1. ASSUME NEW place \in Places, Goto(t, place), UNCHANGED <<held, job, todo>>
      PROVE  Goal
  BY <1>0, <1>1 DEF TaskTypes, Goto
<1>2. ASSUME Finish(t) PROVE Goal
  BY <1>0, <1>2 DEF TaskTypes, Finish, Goto, Places
<1>3. ASSUME UNCHANGED taskVars PROVE Goal
  BY <1>0, <1>3 DEF TaskTypes, taskVars
<1>4. CASE \/ OrientFirst(t) \/ CommitUnanswered(t) \/ CommitLost(t)
           \/ Projected(t) \/ Lost(t)
  BY <1>2, <1>4 DEF OrientFirst, CommitUnanswered, CommitLost, AnswerFails,
                    Projected, Lost
<1>5. CASE \/ BindFirst(t) \/ BindPrivate(t) \/ OrientPrivate(t)
           \/ PrivateFails(t) \/ EngineFails(t)
           \/ Cleaned(t) \/ Rebind(t) \/ Reorient(t)
  BY <1>1, <1>5 DEF BindFirst, BindPrivate, OrientPrivate, PrivateFails,
                    EngineFails, Cleaned, Rebind, Reorient, Places
<1>6. CASE Admit(t)
  BY <1>3, <1>6 DEF Admit
<1>7. CASE Edited(t)
  BY <1>1, <1>2, <1>7 DEF Edited, Places
<1>8. CASE Flip(t)
  <2> DEFINE s == job[t].surface
             turn == {[surface |-> s, flipped |-> ~flips[s]]}
  <2>1. CASE Finish(t)
    BY <1>2, <2>1
  <2>2. CASE /\ flips[s] # None
             /\ todo' = [todo EXCEPT ![t] = turn]
             /\ Goto(t, "project") /\ UNCHANGED <<held, job>>
    <3>1. turn \in SUBSET Spot
      BY <1>8, <2>2, JobTypes, FlipTypes DEF Flip, Spot, WithJob
    <3> HIDE DEF turn
    <3> QED
      BY <1>0, <2>2, <3>1 DEF TaskTypes, Goto, Places
  <2> QED
    BY <1>8, <2>1, <2>2 DEF Flip, AnswerFails
<1>9. CASE Commit(t)
  BY <1>0, <1>9, CommitTypes DEF Commit, Advance, TaskTypes, Goto, Places
<1>10. CASE EngineCommit(t)
  BY <1>0, <1>10, CommitTypes DEF EngineCommit, Advance, TaskTypes, Goto, Places
<1>11. ASSUME NEW e \in PrivateBoards, SendPrivate(t, e) PROVE Goal
  BY <1>0, <1>11, NewJob, Ground DEF SendPrivate, WorkOn, TaskTypes, Goto, Places
<1>12. ASSUME NEW s \in Surfaces, Receive(t, s) PROVE Goal
  <2>1. committed \in Revision
    BY DEF TypeOK
  <2> QED
    BY <1>0, <1>12, <2>1, NewJob DEF Receive, WorkOn, TaskTypes, Goto, Places
<1>13. CASE List(t)
  <2> DEFINE all == {[surface |-> s, flipped |-> flips[s] = TRUE] : s \in bound}
  <2>1. \A s \in bound : [surface |-> s, flipped |-> flips[s] = TRUE] \in Spot
    BY DEF Spot, TypeOK
  <2>2. all \in SUBSET Spot
    BY <2>1
  <2>3. todo' = [todo EXCEPT ![t] = all]
    BY <1>13 DEF List
  <2> HIDE DEF all
  <2> QED
    BY <1>0, <1>13, <2>2, <2>3 DEF List, TaskTypes, Goto, Places
<1>14. ASSUME NEW spot \in todo[t], Project(t, spot) PROVE Goal
  <2>1. spot.surface \in Surfaces /\ spot.flipped \in BOOLEAN
    BY <1>0 DEF TaskTypes, Spot
  <2>2. [surface |-> spot.surface, flipped |-> spot.flipped,
         receipt |-> None] \in Job
    BY <2>1, NewJob
  <2> QED
    BY <1>0, <1>14, <2>2 DEF Project, WorkOn, TaskTypes, Goto, Places
<1>15. CASE Sent(t)
  <2>1. at[t] = "working" /\ sent + 1 \in Messages
    BY <1>15, WorkerSteps, WorkerTypes DEF Sent, TypeOK, WorkerOK, Appears
  <2>2. [job[t] EXCEPT !.receipt = sent + 1] \in Job
    <3>1. job[t] \in Job
      BY <2>1, JobTypes DEF WithJob
    <3> QED
      BY <2>1, <3>1 DEF Job
  <2>3. job' = [job EXCEPT ![t] = [job[t] EXCEPT !.receipt = sent + 1]]
    BY <1>15 DEF Sent
  <2> QED
    BY <1>0, <1>15, <2>2, <2>3 DEF Sent, TaskTypes
<1> QED
  BY <1>4, <1>5, <1>6, <1>7, <1>8, <1>9, <1>10, <1>11, <1>12, <1>13, <1>14,
     <1>15 DEF OwnStep, Step

\* Who is inside the worker.
WorkingIsAsking == \A t \in Tasks : at[t] = "working" <=> phase[t] # "idle"

\* Only the call of the task moves, and the worker keeps its types.
LEMMA WorkerFrame ==
    ASSUME TypeOK, TasksOK, NEW t \in Tasks, OwnStep(t)
    PROVE  /\ WorkerOK'
           /\ WorkingIsAsking'
           /\ \A d \in Tasks \ {t} : phase'[d] = phase[d] /\ work'[d] = work[d]
<1> DEFINE Quiet == \A d \in Tasks \ {t} :
                       phase'[d] = phase[d] /\ work'[d] = work[d]
<1>0. /\ WorkerOK /\ WorkingIsAsking
      /\ at \in [Tasks -> Places] /\ held \in [Tasks -> Revision]
      /\ TaskTypes'
      /\ \A d \in Tasks \ {t} : at'[d] = at[d]
  BY WorkerTypes, TaskFrame DEF TypeOK, WorkingIsAsking
<1>1. /\ phase \in [Tasks -> Phases] /\ work \in [Tasks -> Asked \cup {None}]
      /\ \A d \in Tasks : phase[d] = "idle" <=> work[d] = None
      /\ \A d \in Tasks : at[d] = "working" <=> phase[d] # "idle"
      /\ sent \in Messages /\ live \subseteq 1 .. sent
      /\ shown \in [Surfaces -> Revision] /\ None \notin Asked
  BY <1>0, WorkerTypes DEF WorkerOK, WorkingIsAsking
<1>2. ASSUME UNCHANGED workerVars, at[t] # "working", at'[t] # "working"
      PROVE  WorkerOK' /\ WorkingIsAsking' /\ Quiet
  <2>1. WorkerOK' /\ Quiet
    BY <1>0, <1>2 DEF WorkerOK, workerVars
  <2> QED
    BY <1>0, <1>1, <1>2, <2>1 DEF WorkingIsAsking, workerVars
\* The shape of a step inside the worker.
<1>3. ASSUME NEW to \in Phases, NEW w \in Asked \cup {None},
             phase' = [phase EXCEPT ![t] = to], work' = [work EXCEPT ![t] = w],
             to = "idle" <=> w = None, at'[t] = "working" <=> to # "idle",
             queue' \in [PrivateBoards -> Seq(Tasks)],
             sent' \in Messages, live' \subseteq 1 .. sent',
             shown' \in [Surfaces -> Revision]
      PROVE  WorkerOK' /\ WorkingIsAsking' /\ Quiet
  <2>1. /\ phase' \in [Tasks -> Phases] /\ work' \in [Tasks -> Asked \cup {None}]
        /\ \A d \in Tasks \ {t} : phase'[d] = phase[d] /\ work'[d] = work[d]
        /\ phase'[t] = to /\ work'[t] = w
    BY <1>1, <1>3
  <2>2. /\ \A d \in Tasks : phase'[d] = "idle" <=> work'[d] = None
        /\ \A d \in Tasks : at'[d] = "working" <=> phase'[d] # "idle"
    BY <1>0, <1>1, <1>3, <2>1
  <2> QED
    BY <1>3, <2>1, <2>2 DEF WorkerOK, WorkingIsAsking
<1>4. ASSUME Returns(t), at'[t] # "working", at[t] = "working",
             queue' \in [PrivateBoards -> Seq(Tasks)],
             sent' \in Messages, live' \subseteq 1 .. sent',
             shown' \in [Surfaces -> Revision]
      PROVE  WorkerOK' /\ WorkingIsAsking' /\ Quiet
  <2>1. "idle" \in Phases /\ None \in Asked \cup {None}
    BY DEF Phases
  <2> QED
    BY <1>3, <1>4, <2>1 DEF Returns, Moves
<1>5. ASSUME Appears(t), phase[t] # "idle"
      PROVE  sent' \in Messages /\ live' \subseteq 1 .. sent'
             /\ shown' \in [Surfaces -> Revision]
  <2>1. work[t].revision \in Revision
    BY <1>1, <1>5 DEF Asked
  <2>2. sent \in Nat /\ \A m \in 1 .. sent : m \in 1 .. sent + 1
    BY <1>1, Ground
  <2>3. sent + 1 \in 1 .. sent + 1
    BY <2>2
  <2> QED
    BY <1>1, <1>5, <2>1, <2>2, <2>3 DEF Appears
<1>6. CASE \/ BindFirst(t) \/ OrientFirst(t) \/ BindPrivate(t)
           \/ OrientPrivate(t) \/ (\E s \in Surfaces : Receive(t, s)) \/ Flip(t)
           \/ Commit(t) \/ CommitUnanswered(t) \/ CommitLost(t)
           \/ PrivateFails(t) \/ EngineCommit(t) \/ EngineFails(t)
           \/ List(t) \/ Projected(t) \/ Rebind(t) \/ Reorient(t)
  <2>1. UNCHANGED workerVars /\ at[t] # "working"
    BY <1>6 DEF BindFirst, OrientFirst, BindPrivate, OrientPrivate, Receive,
         Flip, Commit, CommitUnanswered, CommitLost, PrivateFails,
         EngineCommit, EngineFails, List, Projected, Rebind, Reorient
  <2>2. at'[t] # "working"
    BY <1>0, <1>6 DEF BindFirst, OrientFirst, BindPrivate, OrientPrivate,
         Receive, Flip, Commit, CommitUnanswered, CommitLost, PrivateFails,
         EngineCommit, EngineFails, List, Projected, Rebind, Reorient,
         Goto, Finish, AnswerFails
  <2> QED
    BY <1>2, <2>1, <2>2
<1>7. ASSUME NEW e \in PrivateBoards, SendPrivate(t, e)
      PROVE  WorkerOK' /\ WorkingIsAsking' /\ Quiet
  <2>1. shown' \in [Surfaces -> Revision] /\ at'[t] = "bindPrivate"
    BY <1>0, <1>1, <1>7 DEF SendPrivate, Goto
  <2>2. at[t] = "private" /\ UNCHANGED <<phase, work, queue, sent, live>>
    BY <1>7 DEF SendPrivate
  <2>3. WorkerOK' /\ Quiet
    BY <1>0, <2>1, <2>2 DEF WorkerOK
  <2> QED
    BY <1>0, <1>1, <2>1, <2>2, <2>3 DEF WorkingIsAsking
<1>8. ASSUME NEW spot \in todo[t], Project(t, spot)
      PROVE  WorkerOK' /\ WorkingIsAsking' /\ Quiet
  <2> DEFINE w == [surface |-> spot.surface, revision |-> held[t],
                   replacement |-> None]
             to == IF spot.surface \in Messages THEN "send" ELSE "admit"
  <2>1. Worker!Enter(t, spot.surface, held[t]) /\ at'[t] = "working"
    BY <1>0, <1>8 DEF Project, Goto
  <2>2. /\ work' = [work EXCEPT ![t] = w] /\ Moves(t, to)
        /\ UNCHANGED <<queue, sent, live, shown>>
    BY <2>1, WorkerSteps
  <2>3. spot.surface \in Surfaces /\ held[t] \in Revision
    BY <1>0 DEF TypeOK, Spot
  <2>4. w \in Asked
    BY <2>3 DEF Asked
  <2>5. to \in Phases /\ to # "idle" /\ w # None
    BY <1>1, <2>4 DEF Phases
  <2>6. queue' \in [PrivateBoards -> Seq(Tasks)]
    BY <1>0, <2>2 DEF WorkerOK
  <2> HIDE DEF w, to
  <2> QED
    BY <1>1, <1>3, <2>1, <2>2, <2>4, <2>5, <2>6 DEF Moves
<1>9. CASE Admit(t)
  <2>1. Worker!Admit(t) /\ at'[t] = at[t]
    BY <1>9 DEF Admit, taskVars
  <2>2. /\ phase[t] = "admit" /\ Moves(t, "edit")
        /\ UNCHANGED <<work, sent, live, shown>>
    BY <2>1, WorkerSteps
  <2>3. queue' \in [PrivateBoards -> Seq(Tasks)]
    BY <2>1, QueuesAreLines
  <2>4. work' = [work EXCEPT ![t] = work[t]] /\ work[t] \in Asked
    BY <1>1, <2>2
  <2>5. "edit" \in Phases
    BY DEF Phases
  <2> QED
    BY <1>1, <1>3, <2>1, <2>2, <2>3, <2>4, <2>5 DEF Moves
<1>10. CASE Edited(t)
  <2>1. Worker!Apply(t) /\ at'[t] # "working"
    BY <1>0, <1>10 DEF Edited, Goto, Finish
  <2>2. /\ phase[t] = "edit" /\ Returns(t)
        /\ shown' = [shown EXCEPT ![work[t].surface] = work[t].revision]
        /\ UNCHANGED <<sent, live>>
    BY <2>1, WorkerSteps
  <2>3. queue' \in [PrivateBoards -> Seq(Tasks)]
    BY <2>1, QueuesAreLines
  <2>4. work[t].revision \in Revision
    BY <1>1, <2>2 DEF Asked
  <2>5. shown' \in [Surfaces -> Revision]
    BY <1>1, <2>2, <2>4
  <2> QED
    BY <1>1, <1>4, <2>1, <2>2, <2>3, <2>5
<1>11. CASE Lost(t)
  <2>1. at'[t] # "working"
    BY <1>0, <1>11 DEF Lost, Goto, Finish
  <2>2. CASE Worker!FailEdit(t)
    <3>1. /\ phase[t] = "edit" /\ Returns(t)
          /\ UNCHANGED <<sent, live, shown>>
      BY <2>2, WorkerSteps
    <3>2. queue' \in [PrivateBoards -> Seq(Tasks)]
      BY <2>2, QueuesAreLines
    <3> QED
      BY <1>1, <1>4, <2>1, <3>1, <3>2
  <2>3. CASE Worker!FailSend(t)
    <3>1. /\ phase[t] = "send" /\ Returns(t)
          /\ Appears(t) \/ UNCHANGED <<sent, live, shown>>
          /\ UNCHANGED queue
      BY <2>3, WorkerSteps
    <3>2. queue' \in [PrivateBoards -> Seq(Tasks)]
      BY <1>0, <3>1 DEF WorkerOK
    <3>3. sent' \in Messages /\ live' \subseteq 1 .. sent'
          /\ shown' \in [Surfaces -> Revision]
      BY <1>1, <1>5, <3>1
    <3> QED
      BY <1>1, <1>4, <2>1, <3>1, <3>2, <3>3
  <2> QED
    BY <1>11, <2>2, <2>3 DEF Lost
<1>12. CASE Sent(t)
  <2>1. Worker!Send(t) /\ at'[t] = at[t]
    BY <1>12 DEF Sent
  <2>2. /\ phase[t] = "send" /\ Moves(t, "delete") /\ Appears(t)
        /\ work' = [work EXCEPT ![t] = [work[t] EXCEPT !.replacement = sent + 1]]
        /\ UNCHANGED queue
    BY <2>1, WorkerSteps
  <2>3. work[t] \in Asked /\ sent + 1 \in Messages
    BY <1>1, <2>2 DEF Appears
  <2>4. [work[t] EXCEPT !.replacement = sent + 1] \in Asked
    BY <2>3 DEF Asked
  <2>5. "delete" \in Phases
    BY DEF Phases
  <2>6. queue' \in [PrivateBoards -> Seq(Tasks)]
    BY <1>0, <2>2 DEF WorkerOK
  <2>7. sent' \in Messages /\ live' \subseteq 1 .. sent'
        /\ shown' \in [Surfaces -> Revision]
    BY <1>1, <1>5, <2>2
  <2> QED
    BY <1>1, <1>3, <2>1, <2>2, <2>4, <2>5, <2>6, <2>7 DEF Moves
<1>13. CASE Cleaned(t)
  <2>1. Worker!Cleanup(t) /\ at'[t] # "working"
    BY <1>0, <1>13 DEF Cleaned, Goto
  <2>2. /\ phase[t] = "delete" /\ Returns(t)
        /\ live' \in {live, live \ {work[t].surface}}
        /\ UNCHANGED <<queue, sent, shown>>
    BY <2>1, WorkerSteps
  <2>3. queue' \in [PrivateBoards -> Seq(Tasks)]
    BY <1>0, <2>2 DEF WorkerOK
  <2>4. live' \subseteq live
    BY <2>2
  <2> QED
    BY <1>1, <1>4, <2>1, <2>2, <2>3, <2>4
<1> QED
  BY <1>6, <1>7, <1>8, <1>9, <1>10, <1>11, <1>12, <1>13 DEF OwnStep, Step

\* The state of the game, of its bindings and of what the chat shows of them.
GameTypes ==
    /\ committed \in Revision
    /\ bound \subseteq Surfaces
    /\ flips \in [Surfaces -> BOOLEAN \cup {None}]
    /\ mode \in {"stockfish", "twoPlayer"}
    /\ serial \in BOOLEAN
    /\ facing \in [Surfaces -> BOOLEAN]
    /\ failed \in BOOLEAN
    /\ turned \in BOOLEAN
    /\ reached \in BOOLEAN

\* What a step does to the history of the committed revision.
LEMMA ReachedTypes ==
    ASSUME TypeOK, NEW t \in Tasks, OwnStep(t)
    PROVE  reached' \in BOOLEAN
<1>1. \/ reached' = reached
      \/ reached' = FALSE
      \/ reached' = (reached \/ (serial /\ held[t] = committed))
  <2>1. CASE \/ PrivateFails(t) \/ EngineFails(t) \/ Projected(t) \/ Admit(t)
             \/ CommitLost(t) \/ Cleaned(t) \/ BindFirst(t) \/ OrientFirst(t)
             \/ BindPrivate(t) \/ OrientPrivate(t) \/ Rebind(t) \/ Reorient(t)
             \/ (\E s \in Surfaces : Receive(t, s))
             \/ (\E spot \in todo[t] : Project(t, spot))
    BY <2>1 DEF PrivateFails, EngineFails, Projected, Admit, CommitLost,
       Cleaned, BindFirst, OrientFirst, BindPrivate, OrientPrivate, Rebind,
       Reorient, Receive, Project, historyVars
  <2>2. CASE \/ Lost(t) \/ List(t) \/ Flip(t) \/ Commit(t)
             \/ CommitUnanswered(t) \/ EngineCommit(t)
    BY <2>2 DEF Lost, List, Flip, Commit, CommitUnanswered, EngineCommit,
       Advance, historyVars
  <2>3. CASE \/ Edited(t) \/ Sent(t)
             \/ (\E e \in PrivateBoards : SendPrivate(t, e))
    BY <2>3 DEF Edited, Sent, SendPrivate, Shows
  <2> QED
    BY <2>1, <2>2, <2>3 DEF OwnStep, Step
<1> QED
  BY <1>1 DEF TypeOK

\* They keep their types too.
LEMMA GameFrame ==
    ASSUME TypeOK, TasksOK, NEW t \in Tasks, OwnStep(t)
    PROVE  GameTypes' /\ UNCHANGED fixed
<1>0. /\ GameTypes /\ 1 \in Surfaces /\ FALSE \in BOOLEAN
      /\ \A b : (b = TRUE) \in BOOLEAN
      /\ reached' \in BOOLEAN
  BY Ground, ReachedTypes DEF TypeOK, GameTypes
<1>1. ASSUME UNCHANGED <<committed, bindingVars, fixed, facing, turned>>,
             failed' \in BOOLEAN
      PROVE  GameTypes' /\ UNCHANGED fixed
  BY <1>0, <1>1 DEF GameTypes, bindingVars, fixed
<1>2. CASE \/ PrivateFails(t) \/ EngineFails(t) \/ Projected(t) \/ Admit(t)
           \/ CommitLost(t) \/ Cleaned(t)
           \/ (\E s \in Surfaces : Receive(t, s))
           \/ (\E spot \in todo[t] : Project(t, spot))
  <2>1. failed \in BOOLEAN
    BY <1>0 DEF GameTypes
  <2> QED
    BY <1>1, <1>2, <2>1 DEF PrivateFails, EngineFails, Projected, Admit,
       CommitLost, Cleaned, Receive, Project, historyVars
<1>3. CASE Lost(t) \/ List(t)
  <2>1. serial \in BOOLEAN
    BY <1>0 DEF GameTypes
  <2> QED
    BY <1>1, <1>3, <2>1 DEF Lost, List
<1>4. CASE BindFirst(t)
  BY <1>0, <1>4 DEF BindFirst, GameTypes, fixed, historyVars
<1>5. CASE OrientFirst(t)
  BY <1>0, <1>5 DEF OrientFirst, GameTypes, fixed, historyVars
<1>6. CASE BindPrivate(t)
  <2>1. job[t].surface \in Surfaces
    BY <1>6, JobTypes DEF BindPrivate, WithJob
  <2> QED
    BY <1>0, <1>6, <2>1 DEF BindPrivate, GameTypes, fixed, historyVars
<1>7. CASE OrientPrivate(t)
  BY <1>0, <1>7 DEF OrientPrivate, GameTypes, fixed, historyVars
<1>8. CASE Flip(t)
  <2> DEFINE s == job[t].surface
  <2>1. s \in Surfaces
    BY <1>8, JobTypes DEF Flip, WithJob
  <2>2. \/ UNCHANGED flips
        \/ flips[s] # None /\ flips' = [flips EXCEPT ![s] = ~flips[s]]
    BY <1>8 DEF Flip
  <2>3. flips' \in [Surfaces -> BOOLEAN \cup {None}]
    <3>1. CASE UNCHANGED flips
      BY <1>0, <3>1 DEF GameTypes
    <3>2. CASE flips[s] # None /\ flips' = [flips EXCEPT ![s] = ~flips[s]]
      <4>1. (~flips[s]) \in BOOLEAN \cup {None}
        BY <2>1, <3>2, FlipTypes
      <4> DEFINE b == ~flips[s]
      <4>2. flips' = [flips EXCEPT ![s] = b] /\ b \in BOOLEAN \cup {None}
        BY <3>2, <4>1
      <4> HIDE DEF b
      <4> QED
        BY <1>0, <4>2 DEF GameTypes
    <3> QED
      BY <2>2, <3>1, <3>2
  <2>4. turned' \in BOOLEAN
    <3>1. \/ turned' = (turned # (s \in Messages))
          \/ turned' = turned
      BY <1>8 DEF Flip, historyVars
    <3> QED
      BY <1>0, <3>1 DEF GameTypes
  <2>5. failed' \in BOOLEAN
    BY <1>0, <1>8 DEF Flip, AnswerFails, historyVars, GameTypes
  <2>6. UNCHANGED <<committed, bound, fixed, facing>>
    BY <1>8 DEF Flip
  <2> QED
    BY <1>0, <2>3, <2>4, <2>5, <2>6 DEF GameTypes, fixed
<1>9. CASE Commit(t) \/ CommitUnanswered(t) \/ EngineCommit(t)
  <2>1. committed' \in Revision
    BY <1>0, <1>9, CommitTypes
    DEF Commit, CommitUnanswered, EngineCommit, Advance, GameTypes
  <2>2. failed' \in BOOLEAN
    BY <1>0, <1>9 DEF Commit, CommitUnanswered, EngineCommit, AnswerFails,
                      historyVars, GameTypes
  <2>3. UNCHANGED <<bindingVars, fixed, facing, turned>>
    BY <1>9 DEF Commit, CommitUnanswered, EngineCommit, historyVars
  <2> QED
    BY <1>0, <2>1, <2>2, <2>3 DEF GameTypes, bindingVars, fixed
<1>10. ASSUME NEW e \in PrivateBoards, SendPrivate(t, e)
       PROVE  GameTypes' /\ UNCHANGED fixed
  BY <1>0, <1>10 DEF SendPrivate, GameTypes, bindingVars, fixed, historyVars
<1>11. CASE Edited(t) \/ Sent(t)
  <2>1. at[t] = "working"
    BY <1>11, WorkerSteps DEF Edited, Sent, TypeOK
  <2>2. job[t].flipped \in BOOLEAN
    BY <2>1, JobTypes DEF WithJob
  <2>3. facing' \in [Surfaces -> BOOLEAN]
    BY <1>0, <1>11, <2>2 DEF Edited, Sent, GameTypes
  <2>4. failed' \in BOOLEAN
    BY <1>0, <1>11 DEF Edited, Sent, historyVars, GameTypes
  <2>5. UNCHANGED <<committed, bindingVars, fixed, turned>>
    BY <1>11 DEF Edited, Sent, historyVars
  <2> QED
    BY <1>0, <2>3, <2>4, <2>5 DEF GameTypes, bindingVars, fixed
<1>12. CASE Rebind(t)
  <2>1. job[t].receipt \in Surfaces
    BY <1>12, Ground DEF Rebind, TasksOK, TaskOK
  <2> QED
    BY <1>0, <1>12, <2>1 DEF Rebind, GameTypes, fixed, historyVars
<1>13. CASE Reorient(t)
  <2> DEFINE b == flips[job[t].surface] = TRUE
  <2>1. /\ flips' = [flips EXCEPT ![job[t].surface] = None,
                                  ![job[t].receipt] = b]
        /\ b \in BOOLEAN
    BY <1>0, <1>13 DEF Reorient
  <2> HIDE DEF b
  <2> QED
    BY <1>0, <1>13, <2>1 DEF Reorient, GameTypes, fixed, historyVars
<1> QED
  BY <1>2, <1>3, <1>4, <1>5, <1>6, <1>7, <1>8, <1>9, <1>10, <1>11, <1>12,
     <1>13 DEF OwnStep, Step

\* The types are kept by every step.
LEMMA TypesKept ==
    ASSUME TypeOK, TasksOK, [Next]_vars
    PROVE  TypeOK'
<1>1. ASSUME WorkerOK', WorkingIsAsking', TaskTypes', GameTypes'
      PROVE  TypeOK'
  BY <1>1, WorkerTypes
  DEF TypeOK, WorkingIsAsking, TaskTypes, GameTypes
<1>2. ASSUME NEW t \in Tasks, OwnStep(t) PROVE TypeOK'
  BY <1>1, <1>2, TaskFrame, WorkerFrame, GameFrame
<1>3. WorkerOK /\ WorkingIsAsking /\ TaskTypes /\ GameTypes
  BY WorkerTypes DEF TypeOK, WorkingIsAsking, TaskTypes, GameTypes
<1>4. CASE Displace
  <2>0. PICK s \in PrivateBoards :
           \E i \in 1 .. Len(queue[s]) : Worker!Displace(s, i)
    BY <1>4 DEF Displace
  <2>1. PICK i \in 1 .. Len(queue[s]) : Worker!Displace(s, i)
    BY <2>0
  <2>2. queue' \in [PrivateBoards -> Seq(Tasks)]
    <3>1. queue' = [queue EXCEPT ![s] = RemoveAt(queue[s], i)]
      BY <2>1, SameRemovals DEF Worker!Displace
    <3>2. RemoveAt(queue[s], i) \in Seq(Tasks)
      BY <1>3, ToSetRemoveAt DEF WorkerOK
    <3> QED
      BY <1>3, <3>1, <3>2 DEF WorkerOK
  <2>3. UNCHANGED <<phase, work, sent, live, shown>>
    BY <2>1 DEF Worker!Displace, Worker!chatVars
  <2>4. WorkerOK'
    BY <1>3, <2>2, <2>3 DEF WorkerOK
  <2>5. WorkingIsAsking' /\ TaskTypes' /\ GameTypes'
    BY <1>3, <1>4, <2>3 DEF Displace, WorkingIsAsking, TaskTypes, GameTypes,
       taskVars, bindingVars, fixed, historyVars
  <2> QED
    BY <1>1, <2>4, <2>5
<1>5. CASE UNCHANGED vars
  <2>1. WorkerOK'
    BY <1>3, <1>5 DEF vars, workerVars, WorkerOK
  <2>2. WorkingIsAsking' /\ TaskTypes' /\ GameTypes'
    BY <1>3, <1>5 DEF vars, workerVars, WorkingIsAsking, TaskTypes, GameTypes,
       taskVars, bindingVars, fixed, historyVars
  <2> QED
    BY <1>1, <2>1, <2>2
<1> QED
  BY <1>2, <1>4, <1>5 DEF Next, OwnStep

\* What tasks do stays in agreement with what they ask of the worker.
LEMMA TasksKept ==
    ASSUME TypeOK, TasksOK, NEW t \in Tasks, OwnStep(t)
    PROVE  TasksOK'
<1> DEFINE s == job[t].surface
           r == job[t].receipt
<1>1. /\ TaskTypes'
      /\ \A d \in Tasks \ {t} :
            /\ at'[d] = at[d] /\ held'[d] = held[d]
            /\ job'[d] = job[d] /\ todo'[d] = todo[d]
  BY TaskFrame
<1>2. \A d \in Tasks \ {t} : phase'[d] = phase[d] /\ work'[d] = work[d]
  BY WorkerFrame
<1>3. SUFFICES TaskOK(t)'
  <2>1. \A d \in Tasks \ {t} : TaskOK(d)'
    BY <1>1, <1>2 DEF TasksOK, TaskOK
  <2> QED
    BY <1>3, <2>1 DEF TasksOK
<1>4. /\ at \in [Tasks -> Places] /\ held \in [Tasks -> Revision]
      /\ job \in [Tasks -> Job \cup {None}] /\ todo \in [Tasks -> SUBSET Spot]
      /\ TaskOK(t)
  BY DEF TypeOK, TasksOK
<1>5. ASSUME Finish(t) PROVE TaskOK(t)'
  BY <1>4, <1>5 DEF Finish, Goto, TaskOK, WithJob, WithList
<1>6. ASSUME NEW place \in {"list", "engine", "private"}, Goto(t, place),
             at[t] \notin WithList, UNCHANGED <<job, todo>>
      PROVE  TaskOK(t)'
  BY <1>4, <1>6 DEF Goto, TaskOK, WithJob, WithList
<1>7. CASE \/ OrientFirst(t) \/ CommitUnanswered(t) \/ CommitLost(t)
           \/ Projected(t) \/ Lost(t)
  BY <1>5, <1>7 DEF OrientFirst, CommitUnanswered, CommitLost, AnswerFails,
                    Projected, Lost
<1>8. CASE \/ Commit(t) \/ PrivateFails(t) \/ OrientPrivate(t)
           \/ EngineCommit(t) \/ EngineFails(t)
  BY <1>6, <1>8 DEF Commit, PrivateFails, OrientPrivate, EngineCommit,
                    EngineFails, WithList
<1>9. CASE BindFirst(t) \/ BindPrivate(t) \/ Rebind(t)
  BY <1>4, <1>9 DEF BindFirst, BindPrivate, Rebind, Goto, TaskOK, WithJob,
                    WithList
<1>10. CASE List(t) \/ Reorient(t)
  BY <1>4, <1>10 DEF List, Reorient, Goto, TaskOK, WithJob, WithList
<1>11. CASE Flip(t)
  <2>1. Finish(t) \/ (Goto(t, "project") /\ UNCHANGED job)
    BY <1>11 DEF Flip, AnswerFails
  <2> QED
    BY <1>4, <1>5, <2>1 DEF Goto, TaskOK, WithJob, WithList
<1>12. ASSUME NEW e \in PrivateBoards, SendPrivate(t, e) PROVE TaskOK(t)'
  <2> DEFINE j == [surface |-> e, flipped |-> TRUE, receipt |-> None]
  <2>1. /\ job'[t] = j /\ at'[t] = "bindPrivate" /\ todo'[t] = {}
    BY <1>4, <1>12 DEF SendPrivate, WorkOn, Goto, TaskOK, WithList
  <2>2. j # None
    BY <2>1, NewJob, Ground, NoneAssumption
  <2> QED
    BY <2>1, <2>2 DEF TaskOK, WithJob, WithList
<1>13. ASSUME NEW p \in Surfaces, Receive(t, p) PROVE TaskOK(t)'
  <2> DEFINE j == [surface |-> p, flipped |-> FALSE, receipt |-> None]
  <2>1. /\ job'[t] = j /\ at'[t] \in {"flip", "commit", "join"}
        /\ todo'[t] = {}
    BY <1>4, <1>13 DEF Receive, WorkOn, Goto, TaskOK, WithList
  <2>2. j # None
    BY <2>1, NewJob, NoneAssumption
  <2> QED
    BY <2>1, <2>2 DEF TaskOK, WithJob, WithList
<1>14. ASSUME NEW spot \in todo[t], Project(t, spot) PROVE TaskOK(t)'
  <2> DEFINE j == [surface |-> spot.surface, flipped |-> spot.flipped,
                   receipt |-> None]
             to == IF spot.surface \in Messages THEN "send" ELSE "admit"
  <2>1. spot.surface \in Surfaces /\ spot.flipped \in BOOLEAN
    BY <1>4 DEF Spot
  <2>2. j # None
    BY <2>1, NewJob, NoneAssumption
  <2>3. Worker!Enter(t, spot.surface, held[t])
    BY <1>14 DEF Project
  <2>4. /\ work'[t] = [surface |-> spot.surface, revision |-> held[t],
                       replacement |-> None]
        /\ phase'[t] = to
    BY <2>3, WorkerSteps, WorkerTypes DEF Moves, TypeOK, WorkerOK
  <2>5. job'[t] = j /\ at'[t] = "working" /\ held'[t] = held[t]
    BY <1>4, <1>14 DEF Project, WorkOn, Goto
  <2>6. /\ j.surface = spot.surface /\ j.receipt = None
        /\ spot.surface \notin Messages => spot.surface \in PrivateBoards
    BY <2>1, Ground
  <2> HIDE DEF j
  <2> QED
    BY <2>2, <2>4, <2>5, <2>6 DEF TaskOK, WithJob, WithList
<1>15. CASE Admit(t)
  <2>1. phase[t] = "admit" /\ phase'[t] = "edit" /\ UNCHANGED <<work, taskVars>>
    BY <1>15, WorkerSteps, WorkerTypes DEF Admit, Moves, TypeOK, WorkerOK
  <2>2. at[t] = "working"
    BY <2>1 DEF TypeOK
  <2> QED
    BY <1>4, <2>1, <2>2 DEF TaskOK, taskVars, WithJob, WithList
<1>16. CASE Edited(t)
  <2>1. Finish(t) \/ (Goto(t, "project") /\ UNCHANGED job)
    BY <1>16 DEF Edited
  <2> QED
    BY <1>4, <1>5, <2>1 DEF Goto, TaskOK, WithJob, WithList
<1>17. CASE Sent(t)
  <2>1. /\ phase[t] = "send" /\ phase'[t] = "delete" /\ sent + 1 \in Messages
        /\ work' = [work EXCEPT ![t] = [work[t] EXCEPT !.replacement = sent + 1]]
        /\ at[t] = "working"
    <3>1. /\ phase[t] = "send" /\ Moves(t, "delete") /\ Appears(t)
          /\ work' = [work EXCEPT ![t].replacement = sent + 1]
      BY <1>17, WorkerSteps DEF Sent
    <3>2. phase \in [Tasks -> Phases] /\ (phase[t] # "idle" => at[t] = "working")
      BY WorkerTypes DEF TypeOK, WorkerOK
    <3> QED
      BY <3>1, <3>2 DEF Moves, Appears
  <2>2. /\ UNCHANGED <<at, held, todo>>
        /\ job' = [job EXCEPT ![t] = [job[t] EXCEPT !.receipt = sent + 1]]
    BY <1>17 DEF Sent
  <2>3. job[t] \in Job
    BY <2>1, JobTypes DEF WithJob
  <2>4. /\ job'[t].surface = job[t].surface /\ job'[t].receipt = sent + 1
        /\ job'[t] \in Job
    BY <1>4, <2>1, <2>2, <2>3 DEF Job
  <2>5. work'[t] = [surface |-> job[t].surface, revision |-> held[t],
                    replacement |-> sent + 1]
    BY <1>4, <2>1, WorkerTypes DEF TaskOK, TypeOK, WorkerOK
  <2>6. job'[t] # None /\ job[t].surface \in Messages
        /\ at'[t] = "working" /\ held'[t] = held[t] /\ sent + 1 # None
    BY <1>4, <2>1, <2>2, <2>4, NoneAssumption, Ground DEF TaskOK
  <2> QED
    BY <2>1, <2>4, <2>5, <2>6 DEF TaskOK, WithJob, WithList
<1>18. CASE Cleaned(t)
  <2>1. phase[t] = "delete" /\ at[t] = "working" /\ at'[t] = "rebind"
        /\ UNCHANGED <<job, todo>>
    BY <1>4, <1>18, WorkerSteps DEF Cleaned, Goto, TypeOK
  <2>2. s \in Messages /\ r \in Messages /\ job[t] # None
    BY <1>4, <2>1, JobTypes DEF TaskOK, WithJob
  <2> QED
    BY <2>1, <2>2 DEF TaskOK, WithJob, WithList
<1> QED
  BY <1>7, <1>8, <1>9, <1>10, <1>11, <1>12, <1>13, <1>14, <1>15, <1>16,
     <1>17, <1>18 DEF OwnStep, Step

-----------------------------------------------------------------------------
(* Steps after which no message is known that was not known before. *)

\* A step of task t that neither sends a board nor binds or deletes one, and
\* forgets no orientation.
Calm(t) ==
    /\ at[t] = "idle" => bound # {}
    /\ at[t] # "bindFirst" /\ at'[t] \notin {"bindFirst", "reorient"}
    /\ ~Holding(t) /\ ~Holding(t)'
    /\ bound \subseteq bound' /\ bound' \cap Messages \subseteq bound
    /\ live \subseteq live' /\ sent \in Nat /\ sent' \in Nat /\ sent <= sent'
    /\ \A m \in Messages : Knows(t, m)' => Known(m)
    /\ \A s \in bound : flips[s] # None \/ Orienting(t, s) =>
                           flips'[s] # None \/ Orienting(t, s)'
    /\ \A s \in bound' \ bound : Orienting(t, s)'

\* The other tasks are where they were.
Frame(t) ==
    \A d \in Tasks \ {t} :
       at'[d] = at[d] /\ job'[d] = job[d] /\ todo'[d] = todo[d]

\* What others know they knew before, and what they hold they held.
LEMMA OthersKnow ==
    ASSUME NEW t \in Tasks, Frame(t)
    PROVE  \A d \in Tasks \ {t} :
              /\ \A m : Knows(d, m)' <=> Knows(d, m)
              /\ Holding(d)' <=> Holding(d)
              /\ \A m : Replacing(d, m)' <=> Replacing(d, m)
              /\ \A s : Orienting(d, s)' <=> Orienting(d, s)
BY DEF Frame, Knows, Holding, Replacing, Orienting

\* To replace a board is to hold the one that comes after it.
LEMMA ReplacingIsHolding ==
    \A t, m : Replacing(t, m) <=> Holding(t) /\ job[t].surface = m
BY DEF Replacing, Holding

\* Such steps keep all that is said about messages.
LEMMA CalmKeeps ==
    ASSUME IInv, NEW t \in Tasks, Calm(t), Frame(t)
    PROVE  Pristine' /\ BoardsOK'
<1>1. /\ \A d \in Tasks \ {t} :
            /\ at'[d] = at[d] /\ job'[d] = job[d]
            /\ \A m : Knows(d, m)' <=> Knows(d, m)
            /\ Holding(d)' <=> Holding(d)
            /\ \A m : Replacing(d, m)' <=> Replacing(d, m)
            /\ \A s : Orienting(d, s)' <=> Orienting(d, s)
      /\ ~Holding(t) /\ ~Holding(t)'
  BY OthersKnow DEF Calm, Frame
<1>2. \A m \in Messages : Known(m)' => Known(m)
  BY <1>1 DEF Calm, Known
<1>3. \A d \in Tasks : Holding(d) <=> Holding(d)'
  BY <1>1
<1>4. \A d \in Tasks : Holding(d) => job'[d] = job[d] /\ at'[d] = at[d]
  BY <1>1
<1>5. \A d \in Tasks : Holding(d) => job[d].receipt \in Messages
  <2> TAKE d \in Tasks
  <2> HAVE Holding(d)
  <2>1. at[d] \in WithJob /\ job[d].receipt # None
    BY DEF Holding, WithJob
  <2> QED
    BY <2>1, JobTypes DEF IInv
<1>6. \A d \in Tasks : \A m \in Messages : Replacing(d, m) => Replacing(d, m)'
  BY <1>1, ReplacingIsHolding
<1>7. Pristine'
  <2>1. at[t] = "idle" => bound # {}
    BY DEF Calm
  <2>2. at[t] # "bindFirst" /\ at'[t] # "bindFirst"
    BY DEF Calm
  <2>3. \A d \in Tasks : at'[d] = "bindFirst" => FALSE
    BY <1>1, <2>1, <2>2 DEF IInv, Pristine
  <2> QED
    BY <2>3 DEF Pristine
<1>8. KnownAreSent'
  <2>1. \A m \in Messages : Known(m)' => m <= sent'
    <3> TAKE m \in Messages
    <3> HAVE Known(m)'
    <3>1. m <= sent /\ m \in Nat
      BY <1>2, Ground DEF IInv, BoardsOK, KnownAreSent
    <3> QED
      BY <3>1 DEF Calm
  <2>2. \A d \in Tasks : Holding(d)' => job'[d].receipt <= sent'
    <3> TAKE d \in Tasks
    <3> HAVE Holding(d)'
    <3>1. job'[d].receipt = job[d].receipt /\ job[d].receipt <= sent
      BY <1>3, <1>4 DEF IInv, BoardsOK, KnownAreSent
    <3>2. job[d].receipt \in Nat
      BY <1>3, <1>5, Ground
    <3> QED
      BY <3>1, <3>2 DEF Calm
  <2> QED
    BY <2>1, <2>2 DEF KnownAreSent
<1>9. Fresh'
  <2>1. \A d \in Tasks : Holding(d) =>
           /\ job[d].receipt \in live /\ ~Known(job[d].receipt)
           /\ \A e \in Tasks : Holding(e) /\ job[e].receipt = job[d].receipt
                                  => e = d
    BY DEF IInv, BoardsOK, Fresh
  <2>2. live \subseteq live'
    BY DEF Calm
  <2>3. ASSUME NEW d \in Tasks, Holding(d)'
        PROVE  /\ job'[d].receipt \in live'
               /\ (~Known(job[d].receipt))'
               /\ \A e \in Tasks : Holding(e)' /\ job'[e].receipt = job'[d].receipt
                                      => e = d
    <3>1. /\ Holding(d) /\ job'[d] = job[d] /\ job[d].receipt \in live'
          /\ ~Known(job[d].receipt) /\ job[d].receipt \in Messages
      BY <1>3, <1>4, <1>5, <2>1, <2>2, <2>3
    <3>2. \A m \in Messages : m = job[d].receipt => ~Known(m)'
      BY <1>2, <3>1
    <3>4. (~Known(job[d].receipt))'
      BY <3>1, <3>2 DEF Known, Knows
    <3>3. \A e \in Tasks : Holding(e)' /\ job'[e].receipt = job'[d].receipt
                              => e = d
      BY <1>3, <1>4, <2>1, <3>1
    <3> QED
      BY <3>1, <3>3, <3>4
  <2> QED
    BY <2>3 DEF Fresh
<1>10. ReplacedIsGone'
  <2>1. \A d \in Tasks : at'[d] = "reorient" => d # t /\ at[d] = "reorient"
    BY <1>1 DEF Calm
  <2>2. \A d \in Tasks : at[d] = "reorient" =>
           /\ job[d].surface \notin bound /\ job[d].surface # job[d].receipt
           /\ job[d].surface \in Messages
    BY DEF IInv, BoardsOK, ReplacedIsGone, TasksOK, TaskOK
  <2> QED
    BY <1>1, <2>1, <2>2 DEF Calm, ReplacedIsGone
<1>11. OrientationComes'
  <2>1. \A s \in bound : flips[s] # None \/ \E d \in Tasks : Orienting(d, s)
    BY DEF IInv, BoardsOK, OrientationComes
  <2>2. ASSUME NEW s \in bound'
        PROVE  flips'[s] # None \/ \E d \in Tasks : Orienting(d, s)'
    <3>1. CASE s \notin bound
      BY <3>1 DEF Calm
    <3>2. CASE s \in bound
      BY <1>1, <2>1, <3>2 DEF Calm
    <3> QED
      BY <3>1, <3>2
  <2> QED
    BY <2>2 DEF OrientationComes
<1>12. DeletedBoardsAreUnbound'
  <2>1. \A m \in bound \cap Messages :
           m \in live \/ \E d \in Tasks : Replacing(d, m)
    BY DEF IInv, BoardsOK, DeletedBoardsAreUnbound
  <2>2. \A m \in bound' \cap Messages :
           m \in live' \/ \E d \in Tasks : Replacing(d, m)'
    BY <1>6, <2>1 DEF Calm
  <2> QED
    BY <2>2 DEF DeletedBoardsAreUnbound, Messages, Worker!Messages
<1>13. GameStaysReachable'
  <2>1. CASE \E d \in Tasks : at[d] = "bindFirst"
    BY <1>1, <2>1 DEF Calm, GameStaysReachable
  <2>2. CASE bound \cap live # {}
    BY <2>2 DEF Calm, GameStaysReachable
  <2>3. ASSUME NEW d \in Tasks, NEW m \in Messages, Replacing(d, m),
               job[d].receipt \in live
        PROVE  GameStaysReachable'
    <3>1. Replacing(d, m)' /\ job'[d].receipt \in live'
      BY <1>4, <1>6, <2>3, ReplacingIsHolding DEF Calm
    <3>2. m \in Messages'
      BY DEF Messages, Worker!Messages
    <3> QED
      BY <3>1, <3>2 DEF GameStaysReachable
  <2> QED
    BY <2>1, <2>2, <2>3 DEF IInv, BoardsOK, GameStaysReachable
<1> QED
  BY <1>7, <1>8, <1>9, <1>10, <1>11, <1>12, <1>13 DEF BoardsOK

\* A task that has sent nothing holds nothing.
LEMMA HoldsNothing ==
    ASSUME TypeOK, TasksOK, NEW t \in Tasks,
           \/ at[t] \notin {"working", "rebind"}
           \/ at[t] = "working" /\ phase[t] # "delete"
    PROVE  ~Holding(t)
BY DEF TasksOK, TaskOK, Holding

\* Every step is calm but the first binding, the sending of a board, its
\* cleanup, and its binding.
LEMMA CalmSteps ==
    ASSUME IInv, NEW t \in Tasks, OwnStep(t), ~BindFirst(t), ~Sent(t),
           ~Cleaned(t), ~Rebind(t)
    PROVE  Calm(t)
<1> DEFINE s0 == job[t].surface
           Bindings == /\ bound \subseteq bound' /\ bound' \cap Messages \subseteq bound
                       /\ live \subseteq live' /\ sent' \in Nat /\ sent <= sent'
           Oriented == /\ \A s \in bound : flips[s] # None \/ Orienting(t, s) =>
                                              flips'[s] # None \/ Orienting(t, s)'
                       /\ \A s \in bound' \ bound : Orienting(t, s)'
           Learns == \A m \in Messages : Knows(t, m)' => Known(m)
<1>1. /\ TypeOK /\ TasksOK /\ WorkerOK /\ WorkingIsAsking
      /\ TypeOK' /\ TasksOK' /\ TaskOK(t) /\ TaskOK(t)'
  <2>1. TypeOK /\ TasksOK /\ WorkerOK /\ WorkingIsAsking
    BY WorkerTypes DEF IInv, TypeOK, WorkingIsAsking
  <2>2. TypeOK' /\ TasksOK'
    BY <2>1, TypesKept, TasksKept DEF OwnStep, Next
  <2> QED
    BY <2>1, <2>2 DEF TasksOK
<1>2. /\ sent \in Nat /\ sent' \in Nat /\ sent \in Messages
      /\ at \in [Tasks -> Places] /\ job \in [Tasks -> Job \cup {None}]
      /\ todo \in [Tasks -> SUBSET Spot] /\ held \in [Tasks -> Revision]
      /\ flips \in [Surfaces -> BOOLEAN \cup {None}] /\ bound \subseteq Surfaces
      /\ TaskTypes'
  BY <1>1, Ground, TaskFrame, WorkerFrame DEF WorkerOK, TypeOK
<1>3. ASSUME UNCHANGED <<bound, live, sent>> PROVE Bindings
  BY <1>2, <1>3
<1>4. ASSUME UNCHANGED <<bound, flips>>,
             at[t] \notin {"orientFirst", "orientPrivate", "reorient"}
      PROVE  Oriented
  BY <1>4 DEF Orienting
<1>5. ASSUME Finish(t) PROVE Learns /\ at'[t] = "idle"
  BY <1>2, <1>5 DEF Finish, Goto, Knows
<1>6. ASSUME UNCHANGED <<job, todo>> PROVE Learns
  BY <1>6 DEF Knows, Known
<1>7. ASSUME at[t] \notin {"idle", "bindFirst"}, Bindings, Oriented, Learns,
             at'[t] \notin {"bindFirst", "reorient"}, ~Holding(t), ~Holding(t)'
      PROVE  Calm(t)
  BY <1>2, <1>7 DEF Calm
<1>8. /\ at[t] \notin {"working", "rebind"} => ~Holding(t)
      /\ at'[t] \notin {"working", "rebind"} => ~Holding(t)'
  BY DEF Holding
<1>9. CASE \/ CommitUnanswered(t) \/ CommitLost(t) \/ Projected(t)
  <2>1. /\ UNCHANGED <<bound, live, sent, flips>> /\ Finish(t)
        /\ at[t] \in {"commit", "join", "project"}
    BY <1>9 DEF CommitUnanswered, CommitLost, Projected, AnswerFails,
                workerVars, bindingVars
  <2>2. Bindings /\ Oriented /\ Learns /\ at'[t] = "idle"
    BY <1>3, <1>4, <1>5, <2>1
  <2> QED
    BY <1>7, <1>8, <2>1, <2>2
<1>10. CASE \/ Commit(t) \/ PrivateFails(t) \/ EngineCommit(t) \/ EngineFails(t)
  <2>1. /\ UNCHANGED <<bound, live, sent, flips, job, todo>>
        /\ at[t] \in {"commit", "join", "private", "engine"}
        /\ at'[t] \in {"list", "engine", "private"}
    BY <1>2, <1>10 DEF Commit, PrivateFails, EngineCommit, EngineFails, Goto,
                workerVars, bindingVars
  <2>2. Bindings /\ Oriented /\ Learns
    BY <1>3, <1>4, <1>6, <2>1
  <2> QED
    BY <1>7, <1>8, <2>1, <2>2
<1>11. CASE OrientFirst(t)
  <2>1. /\ UNCHANGED <<bound, live, sent>> /\ Finish(t)
        /\ at[t] = "orientFirst" /\ flips' = [flips EXCEPT ![1] = FALSE]
    BY <1>11 DEF OrientFirst, workerVars
  <2>2. Oriented
    <3>1. \A s \in bound : flips'[s] = IF s = 1 THEN FALSE ELSE flips[s]
      BY <1>2, <2>1
    <3> QED
      BY <2>1, <3>1, NoneAssumption DEF Orienting
  <2>3. Bindings /\ Learns /\ at'[t] = "idle"
    BY <1>3, <1>5, <2>1
  <2> QED
    BY <1>7, <1>8, <2>1, <2>2, <2>3
<1>12. CASE Flip(t)
  <2>1. UNCHANGED <<bound, live, sent>> /\ at[t] = "flip"
    BY <1>12 DEF Flip, workerVars
  <2>2. s0 \in Surfaces /\ job[t] # None
    BY <1>1, <2>1, JobTypes DEF WithJob
  <2>3. \/ UNCHANGED flips
        \/ flips[s0] # None /\ flips' = [flips EXCEPT ![s0] = ~flips[s0]]
    BY <1>12 DEF Flip
  <2>4. \A s \in bound : flips[s] # None => flips'[s] # None
    <3> SUFFICES ASSUME NEW s \in bound, flips[s] # None PROVE flips'[s] # None
      OBVIOUS
    <3>1. CASE UNCHANGED flips
      BY <3>1
    <3>2. CASE flips[s0] # None /\ flips' = [flips EXCEPT ![s0] = ~flips[s0]]
      <4> DEFINE b == ~flips[s0]
      <4>1. b # None
        BY <1>1, <2>2, <3>2, FlipTypes, NoneAssumption
      <4>2. flips' = [flips EXCEPT ![s0] = b]
        BY <3>2
      <4> HIDE DEF b
      <4> QED
        BY <1>2, <4>1, <4>2
    <3> QED
      BY <2>3, <3>1, <3>2
  <2>5. Oriented
    BY <2>1, <2>4 DEF Orienting
  <2>6. Learns /\ at'[t] \in {"idle", "project"}
    <3>1. CASE Finish(t)
      BY <1>5, <3>1
    <3>2. CASE /\ todo' = [todo EXCEPT ![t] =
                              {[surface |-> s0, flipped |-> ~flips[s0]]}]
               /\ Goto(t, "project") /\ UNCHANGED job
      <4>1. todo'[t] = {[surface |-> s0, flipped |-> ~flips[s0]]}
        BY <1>2, <3>2
      <4>2. \A spot \in todo'[t] : spot.surface = s0
        BY <4>1
      <4>3. at'[t] = "project"
        BY <1>2, <3>2 DEF Goto
      <4> QED
        BY <2>2, <3>2, <4>2, <4>3 DEF Knows, Known
    <3> QED
      BY <1>12, <3>1, <3>2 DEF Flip, AnswerFails
  <2> QED
    BY <1>3, <1>7, <1>8, <2>1, <2>5, <2>6
<1>13. ASSUME NEW e \in PrivateBoards, SendPrivate(t, e) PROVE Calm(t)
  <2>1. /\ UNCHANGED <<bound, flips, live, sent, todo>> /\ at[t] = "private"
        /\ at'[t] = "bindPrivate"
        /\ job'[t] = [surface |-> e, flipped |-> TRUE, receipt |-> None]
    BY <1>2, <1>13 DEF SendPrivate, WorkOn, Goto, bindingVars
  <2>2. Learns
    BY <2>1, Ground DEF Knows, Known
  <2> QED
    BY <1>3, <1>4, <1>7, <1>8, <2>1, <2>2
<1>14. CASE BindPrivate(t)
  <2>1. /\ UNCHANGED <<flips, live, sent, job, todo>> /\ at[t] = "bindPrivate"
        /\ at'[t] = "orientPrivate" /\ bound' = bound \cup {s0}
    BY <1>2, <1>14 DEF BindPrivate, Goto, workerVars
  <2>2. s0 \notin Messages
    BY <1>1, <2>1, Ground DEF TaskOK
  <2>3. Bindings
    BY <1>2, <2>1, <2>2
  <2>4. Oriented
    BY <2>1 DEF Orienting
  <2> QED
    BY <1>6, <1>7, <1>8, <2>1, <2>3, <2>4
<1>15. CASE OrientPrivate(t)
  <2>1. /\ UNCHANGED <<bound, live, sent, job, todo>> /\ at[t] = "orientPrivate"
        /\ at'[t] = "list" /\ flips' = [flips EXCEPT ![s0] = TRUE]
    BY <1>2, <1>15 DEF OrientPrivate, Goto, workerVars
  <2>2. Oriented
    <3>1. \A s \in bound : flips'[s] = IF s = s0 THEN TRUE ELSE flips[s]
      BY <1>2, <2>1
    <3> QED
      BY <2>1, <3>1, NoneAssumption DEF Orienting
  <2> QED
    BY <1>3, <1>6, <1>7, <1>8, <2>1, <2>2
<1>16. ASSUME NEW p \in Surfaces, Receive(t, p) PROVE Calm(t)
  <2>1. /\ UNCHANGED <<bound, flips, live, sent, todo>> /\ at[t] = "idle"
        /\ at'[t] \in {"flip", "commit", "join"} /\ p \in bound
        /\ job'[t] = [surface |-> p, flipped |-> FALSE, receipt |-> None]
    BY <1>2, <1>16 DEF Receive, WorkOn, Goto, bindingVars, workerVars
  <2>2. Learns
    BY <2>1 DEF Knows, Known
  <2> QED
    BY <1>2, <1>3, <1>4, <1>8, <2>1, <2>2 DEF Calm
<1>17. CASE List(t)
  <2> DEFINE all == {[surface |-> s, flipped |-> flips[s] = TRUE] : s \in bound}
  <2>1. /\ UNCHANGED <<bound, flips, live, sent, job>> /\ at[t] = "list"
        /\ at'[t] = "project" /\ todo'[t] = all
    BY <1>2, <1>17 DEF List, Goto, bindingVars, workerVars
  <2>2. \A spot \in all : spot.surface \in bound
    OBVIOUS
  <2> HIDE DEF all
  <2>3. Learns
    BY <2>1, <2>2 DEF Knows, Known
  <2> QED
    BY <1>3, <1>4, <1>7, <1>8, <2>1, <2>3
<1>18. ASSUME NEW spot \in todo[t], Project(t, spot) PROVE Calm(t)
  <2>1. /\ Worker!Enter(t, spot.surface, held[t]) /\ UNCHANGED <<bound, flips>>
        /\ at[t] = "project" /\ at'[t] = "working"
        /\ job'[t] = [surface |-> spot.surface, flipped |-> spot.flipped,
                      receipt |-> None]
        /\ todo'[t] = todo[t] \ {spot}
    BY <1>2, <1>18 DEF Project, WorkOn, Goto, bindingVars
  <2>2. UNCHANGED <<live, sent>>
    BY <1>1, <2>1, WorkerSteps
  <2>3. Learns
    BY <2>1 DEF Knows, Known
  <2>4. ~Holding(t)'
    BY <2>1 DEF Holding
  <2> QED
    BY <1>3, <1>4, <1>7, <1>8, <2>1, <2>2, <2>3, <2>4
<1>19. CASE Admit(t)
  <2>1. /\ Worker!Admit(t) /\ UNCHANGED <<bound, flips, at, job, todo>>
    BY <1>19 DEF Admit, bindingVars, taskVars
  <2>2. phase[t] = "admit" /\ UNCHANGED <<live, sent>>
    BY <1>1, <2>1, WorkerSteps
  <2>3. at[t] = "working" /\ ~Holding(t)
    BY <1>1, <2>2, HoldsNothing DEF WorkingIsAsking
  <2>4. ~Holding(t)'
    BY <2>1, <2>3 DEF Holding
  <2> QED
    BY <1>3, <1>4, <1>6, <1>7, <2>1, <2>2, <2>3, <2>4
<1>20. CASE Edited(t)
  <2>1. /\ Worker!Apply(t) /\ UNCHANGED <<bound, flips>>
    BY <1>20 DEF Edited, bindingVars
  <2>2. phase[t] = "edit" /\ UNCHANGED <<live, sent>>
    BY <1>1, <2>1, WorkerSteps
  <2>3. at[t] = "working" /\ ~Holding(t)
    BY <1>1, <2>2, HoldsNothing DEF WorkingIsAsking
  <2>4. Learns /\ at'[t] \in {"idle", "project"}
    <3>1. CASE Finish(t)
      BY <1>5, <3>1
    <3>2. CASE Goto(t, "project") /\ UNCHANGED <<job, todo>>
      BY <1>2, <1>6, <3>2 DEF Goto
    <3> QED
      BY <1>20, <3>1, <3>2 DEF Edited
  <2> QED
    BY <1>3, <1>4, <1>7, <1>8, <2>1, <2>2, <2>3, <2>4
<1>21. CASE Lost(t)
  <2>1. /\ Worker!FailEdit(t) \/ Worker!FailSend(t)
        /\ UNCHANGED <<bound, flips>> /\ Finish(t)
    BY <1>21 DEF Lost, bindingVars
  <2>2. /\ phase[t] \in {"edit", "send"}
        /\ Appears(t) \/ UNCHANGED <<sent, live, shown>>
    BY <1>1, <2>1, WorkerSteps
  <2>3. at[t] = "working" /\ ~Holding(t)
    BY <1>1, <2>2, HoldsNothing DEF WorkingIsAsking
  <2>4. Bindings
    BY <1>2, <2>1, <2>2 DEF Appears
  <2> QED
    BY <1>4, <1>5, <1>7, <1>8, <2>1, <2>3, <2>4
<1>22. CASE Reorient(t)
  <2> DEFINE b == flips[s0] = TRUE
             r == job[t].receipt
  <2>1. /\ UNCHANGED <<bound, live, sent, job, todo>> /\ at[t] = "reorient"
        /\ at'[t] = "project"
        /\ flips' = [flips EXCEPT ![s0] = None, ![r] = b]
        /\ b \in BOOLEAN
    BY <1>2, <1>22 DEF Reorient, Goto, workerVars
  <2>2. s0 \notin bound
    BY <2>1 DEF IInv, BoardsOK, ReplacedIsGone
  <2>3. \A s \in bound : flips'[s] = IF s = r THEN b ELSE flips[s]
    <3> HIDE DEF b
    <3> QED
      BY <1>2, <2>1, <2>2
  <2>4. b # None
    BY <2>1, NoneAssumption
  <2>5. Oriented
    <3> HIDE DEF b
    <3> QED
      BY <2>1, <2>3, <2>4 DEF Orienting
  <2> QED
    BY <1>3, <1>6, <1>7, <1>8, <2>1, <2>5
<1> QED
  BY <1>9, <1>10, <1>11, <1>12, <1>13, <1>14, <1>15, <1>16, <1>17, <1>18,
     <1>19, <1>20, <1>21, <1>22 DEF OwnStep, Step

-----------------------------------------------------------------------------
(* The other four steps. *)

\* The game gets its first board (main.rs: register_surface).
LEMMA FirstBoardBound ==
    ASSUME IInv, NEW t \in Tasks, BindFirst(t)
    PROVE  Pristine' /\ BoardsOK'
<1>1. /\ TypeOK /\ TasksOK /\ at \in [Tasks -> Places]
  BY DEF IInv, TypeOK
<1>2. /\ at[t] = "bindFirst" /\ bound' = bound \cup {1}
      /\ at' = [at EXCEPT ![t] = "orientFirst"]
      /\ UNCHANGED <<live, sent, job, todo>>
  BY DEF BindFirst, Goto, workerVars
<1>3. /\ bound = {} /\ live = {1} /\ sent = 1
      /\ \A d \in Tasks \ {t} : at[d] = "idle"
  BY <1>1, <1>2 DEF IInv, Pristine
<1>4. \A d \in Tasks : at'[d] = IF d = t THEN "orientFirst" ELSE "idle"
  BY <1>1, <1>2, <1>3
<1>5. \A d \in Tasks : job'[d] = None /\ todo'[d] = {}
  BY <1>1, <1>2, <1>3 DEF TasksOK, TaskOK, WithList
<1>6. \A d \in Tasks : ~Holding(d)' /\ \A m : ~Knows(d, m)'
  BY <1>5 DEF Holding, Knows
<1>7. Pristine'
  BY <1>4 DEF Pristine
<1>8. KnownAreSent'
  BY <1>2, <1>3, <1>6 DEF KnownAreSent, Known
<1>9. Fresh' /\ ReplacedIsGone'
  BY <1>4, <1>6 DEF Fresh, ReplacedIsGone
<1>10. OrientationComes'
  BY <1>2, <1>3, <1>4 DEF OrientationComes, Orienting
<1>11. DeletedBoardsAreUnbound' /\ GameStaysReachable'
  BY <1>2, <1>3 DEF DeletedBoardsAreUnbound, GameStaysReachable
<1> QED
  BY <1>7, <1>8, <1>9, <1>10, <1>11 DEF BoardsOK

\* Once a board is bound or a task is on its way, nothing is pristine.
LEMMA NotPristine ==
    ASSUME IInv, NEW t \in Tasks, at[t] \notin {"idle", "bindFirst"},
           at'[t] # "bindFirst", Frame(t)
    PROVE  Pristine'
<1>1. \A d \in Tasks : at[d] # "bindFirst"
  BY DEF IInv, Pristine
<1>2. \A d \in Tasks : at'[d] # "bindFirst"
  BY <1>1 DEF Frame
<1> QED
  BY <1>2 DEF Pristine

\* A new board is in the chat before the old one is touched (src/surface.rs:
\* replace_message).
LEMMA BoardSent ==
    ASSUME IInv, NEW t \in Tasks, Sent(t), Frame(t)
    PROVE  Pristine' /\ BoardsOK'
<1> DEFINE n == sent + 1
<1>1. /\ TypeOK /\ TasksOK /\ TaskOK(t) /\ WorkingIsAsking
      /\ at \in [Tasks -> Places] /\ job \in [Tasks -> Job \cup {None}]
      /\ sent \in Messages /\ sent \in Nat
  BY Ground, WorkerTypes DEF IInv, TypeOK, TasksOK, WorkingIsAsking, WorkerOK
<1>2. /\ phase[t] = "send" /\ Appears(t)
      /\ UNCHANGED <<bound, flips, at, todo>>
      /\ job' = [job EXCEPT ![t] = [job[t] EXCEPT !.receipt = n]]
  BY <1>1, WorkerSteps DEF Sent, bindingVars
<1>3. /\ at[t] = "working" /\ ~Holding(t) /\ job[t] \in Job /\ job[t] # None
      /\ job[t].surface \in Messages
  BY <1>1, <1>2, HoldsNothing, JobTypes DEF WorkingIsAsking, WithJob, TaskOK
<1>4. n \in Messages /\ sent' = n /\ live' = live \cup {n}
  BY <1>2 DEF Appears
<1>5. /\ job'[t] \in Job /\ job'[t].surface = job[t].surface
      /\ job'[t].receipt = n /\ job'[t] # None /\ n # None
  BY <1>1, <1>2, <1>3, <1>4, NoneAssumption, Ground DEF Job
<1>6. \A d \in Tasks \ {t} :
         /\ at'[d] = at[d] /\ job'[d] = job[d]
         /\ \A m : Knows(d, m)' <=> Knows(d, m)
         /\ Holding(d)' <=> Holding(d)
         /\ \A m : Replacing(d, m)' <=> Replacing(d, m)
         /\ \A s : Orienting(d, s)' <=> Orienting(d, s)
  BY OthersKnow DEF Frame
<1>7. /\ \A m : Knows(t, m)' <=> Knows(t, m)
      /\ Holding(t)'
      /\ \A s : ~Orienting(t, s)
      /\ at'[t] = "working"
  BY <1>2, <1>3, <1>5 DEF Knows, Holding, Orienting
<1>8. \A m : Known(m)' <=> Known(m)
  BY <1>2, <1>6, <1>7 DEF Known
<1>9. \A m \in Messages : Known(m) => m <= sent
  BY DEF IInv, BoardsOK, KnownAreSent
<1>10. \A d \in Tasks : Holding(d) =>
          /\ d # t /\ job[d].receipt \in Messages /\ job[d].receipt <= sent
          /\ job[d].receipt \in live /\ ~Known(job[d].receipt)
  <2> TAKE d \in Tasks
  <2> HAVE Holding(d)
  <2>1. at[d] \in WithJob /\ job[d].receipt # None
    BY DEF Holding, WithJob
  <2>2. job[d].receipt \in Messages
    BY <1>1, <2>1, JobTypes
  <2> QED
    BY <1>3, <2>2 DEF IInv, BoardsOK, KnownAreSent, Fresh
<1>11. \A m \in Messages : m <= sent => m # n /\ m <= n
  BY <1>1, Ground
<1>12. Pristine'
  BY <1>3, <1>7, NotPristine
<1>13. KnownAreSent'
  <2>1. \A m \in Messages : Known(m)' => m <= sent'
    BY <1>4, <1>8, <1>9, <1>11
  <2>2. \A d \in Tasks : Holding(d)' => job'[d].receipt <= sent'
    <3> TAKE d \in Tasks
    <3>1. n <= n
      BY <1>1
    <3>2. CASE d = t
      BY <1>4, <1>5, <3>1, <3>2
    <3>3. CASE d # t
      BY <1>4, <1>6, <1>10, <1>11, <3>3
    <3> QED
      BY <3>2, <3>3
  <2> QED
    BY <2>1, <2>2 DEF KnownAreSent
<1>14. Fresh'
  <2>1. ASSUME NEW d \in Tasks, Holding(d)'
        PROVE  /\ job'[d].receipt \in live'
               /\ (~Known(job[d].receipt))'
               /\ \A e \in Tasks : Holding(e)' /\ job'[e].receipt = job'[d].receipt
                                      => e = d
    <3>1. /\ job'[d].receipt \in live' /\ job'[d].receipt \in Messages
          /\ \A m \in Messages : m = job'[d].receipt => ~Known(m)'
      <4>1. CASE d = t
        BY <1>4, <1>5, <1>8, <1>9, <1>11, <4>1
      <4>2. CASE d # t
        BY <1>4, <1>6, <1>8, <1>10, <2>1, <4>2
      <4> QED
        BY <4>1, <4>2
    <3>2. (~Known(job[d].receipt))'
      BY <3>1 DEF Known, Knows
    <3>3. \A e \in Tasks : Holding(e)' /\ job'[e].receipt = job'[d].receipt
                              => e = d
      <4>1. \A e \in Tasks \ {t} : Holding(e)' =>
               Holding(e) /\ job'[e].receipt = job[e].receipt
                          /\ job[e].receipt # n
        BY <1>6, <1>10, <1>11
      <4> QED
        BY <1>5, <2>1, <4>1 DEF IInv, BoardsOK, Fresh
    <3> QED
      BY <3>1, <3>2, <3>3
  <2> QED
    BY <2>1 DEF Fresh
<1>15. ReplacedIsGone'
  BY <1>2, <1>6, <1>7 DEF IInv, BoardsOK, ReplacedIsGone
<1>16. OrientationComes'
  BY <1>2, <1>6, <1>7 DEF IInv, BoardsOK, OrientationComes
<1>17. \A d \in Tasks : \A m : Replacing(d, m) => d # t /\ Replacing(d, m)'
  BY <1>3, <1>6, ReplacingIsHolding
<1>18. DeletedBoardsAreUnbound'
  <2>1. \A m \in bound \cap Messages :
           m \in live \/ \E d \in Tasks : Replacing(d, m)
    BY DEF IInv, BoardsOK, DeletedBoardsAreUnbound
  <2>2. \A m \in bound' \cap Messages :
           m \in live' \/ \E d \in Tasks : Replacing(d, m)'
    BY <1>2, <1>4, <1>17, <2>1
  <2> QED
    BY <2>2 DEF DeletedBoardsAreUnbound, Messages, Worker!Messages
<1>19. GameStaysReachable'
  <2>1. CASE \E d \in Tasks : at[d] = "bindFirst"
    BY <1>2, <2>1 DEF GameStaysReachable
  <2>2. CASE bound \cap live # {}
    BY <1>2, <1>4, <2>2 DEF GameStaysReachable
  <2>3. ASSUME NEW d \in Tasks, NEW m \in Messages, Replacing(d, m),
               job[d].receipt \in live
        PROVE  GameStaysReachable'
    <3>1. Replacing(d, m)' /\ job'[d].receipt \in live'
      BY <1>4, <1>6, <1>17, <2>3
    <3>2. m \in Messages'
      BY DEF Messages, Worker!Messages
    <3> QED
      BY <3>1, <3>2 DEF GameStaysReachable
  <2> QED
    BY <2>1, <2>2, <2>3 DEF IInv, BoardsOK, GameStaysReachable
<1> QED
  BY <1>12, <1>13, <1>14, <1>15, <1>16, <1>18, <1>19 DEF BoardsOK

\* The cleanup deletes the board that was replaced, never one that a task is
\* about to bind (src/surface.rs: replace_message).
LEMMA BoardCleaned ==
    ASSUME IInv, NEW t \in Tasks, Cleaned(t), Frame(t)
    PROVE  Pristine' /\ BoardsOK'
<1> DEFINE old == job[t].surface
<1>1. /\ TypeOK /\ TasksOK /\ TaskOK(t) /\ WorkingIsAsking
      /\ at \in [Tasks -> Places]
  BY DEF IInv, TypeOK, TasksOK, WorkingIsAsking
<1>2. /\ phase[t] = "delete" /\ live' \in {live, live \ {work[t].surface}}
      /\ UNCHANGED <<sent, bound, flips, job, todo>>
      /\ at' = [at EXCEPT ![t] = "rebind"]
  BY <1>1, WorkerSteps DEF Cleaned, bindingVars, Goto
<1>3. /\ at[t] = "working" /\ job[t] # None /\ old \in Messages
      /\ work[t].surface = old /\ job[t].receipt # None
  BY <1>1, <1>2 DEF WorkingIsAsking, WithJob, TaskOK
<1>4. /\ \A d \in Tasks : Holding(d)' <=> Holding(d)
      /\ \A d \in Tasks : \A m : Replacing(d, m)' <=> Replacing(d, m)
      /\ \A d \in Tasks : \A m : Knows(d, m)' <=> Knows(d, m)
      /\ \A d \in Tasks : \A s : Orienting(d, s)' <=> Orienting(d, s)
      /\ \A d \in Tasks : at'[d] # "bindFirst" \/ at[d] = "bindFirst"
      /\ \A d \in Tasks : at[d] = "bindFirst" => at'[d] = "bindFirst"
      /\ \A d \in Tasks : at'[d] = "reorient" => at[d] = "reorient"
      /\ at'[t] = "rebind"
  BY <1>1, <1>2, <1>3 DEF Holding, Replacing, Knows, Orienting
<1>5. \A m : Known(m)' <=> Known(m)
  BY <1>2, <1>4 DEF Known
<1>6. Holding(t) /\ Replacing(t, old)' /\ Known(old)
  BY <1>3, <1>4 DEF Holding, Replacing, Known, Knows
<1>7. \A m : m \in live => m \in live' \/ m = old
  BY <1>2, <1>3
<1>8. \A d \in Tasks : Holding(d) => job[d].receipt \in live'
  BY <1>6, <1>7 DEF IInv, BoardsOK, Fresh
<1>9. Pristine'
  BY <1>3, <1>4, NotPristine
<1>10. KnownAreSent'
  <2>1. /\ \A m \in Messages : Known(m)' => m <= sent'
        /\ \A d \in Tasks : Holding(d)' => job'[d].receipt <= sent'
    BY <1>2, <1>4, <1>5 DEF IInv, BoardsOK, KnownAreSent
  <2> QED
    BY <2>1 DEF KnownAreSent, Messages, Worker!Messages
<1>11. Fresh'
  <2>1. ASSUME NEW d \in Tasks, Holding(d)'
        PROVE  /\ job'[d].receipt \in live'
               /\ (~Known(job[d].receipt))'
               /\ \A e \in Tasks : Holding(e)' /\ job'[e].receipt = job'[d].receipt
                                      => e = d
    <3>1. /\ Holding(d) /\ job' = job /\ ~Known(job[d].receipt)
          /\ \A e \in Tasks : Holding(e) /\ job[e].receipt = job[d].receipt
                                 => e = d
      BY <1>2, <1>4, <2>1 DEF IInv, BoardsOK, Fresh
    <3>2. \A m : m = job[d].receipt => ~Known(m)'
      BY <1>5, <3>1
    <3>3. (~Known(job[d].receipt))'
      BY <3>1, <3>2 DEF Known, Knows
    <3> QED
      BY <1>4, <1>8, <3>1, <3>3
  <2> QED
    BY <2>1 DEF Fresh
<1>12. ReplacedIsGone' /\ OrientationComes'
  BY <1>2, <1>4 DEF IInv, BoardsOK, ReplacedIsGone, OrientationComes
<1>13. DeletedBoardsAreUnbound'
  <2>1. \A m \in bound \cap Messages :
           m \in live \/ \E d \in Tasks : Replacing(d, m)
    BY DEF IInv, BoardsOK, DeletedBoardsAreUnbound
  <2>2. \A m \in bound' \cap Messages :
           m \in live' \/ \E d \in Tasks : Replacing(d, m)'
    BY <1>2, <1>4, <1>6, <1>7, <2>1
  <2> QED
    BY <2>2 DEF DeletedBoardsAreUnbound, Messages, Worker!Messages
<1>14. GameStaysReachable'
  <2>1. /\ \E m \in Messages : Replacing(t, m)'
        /\ job'[t].receipt \in live'
    BY <1>2, <1>3, <1>6, <1>8
  <2> QED
    BY <2>1 DEF GameStaysReachable, Messages, Worker!Messages
<1> QED
  BY <1>9, <1>10, <1>11, <1>12, <1>13, <1>14 DEF BoardsOK

\* The new board takes the place of the old one (main.rs: replace_surface).
LEMMA BoardRebound ==
    ASSUME IInv, NEW t \in Tasks, Rebind(t), Frame(t)
    PROVE  Pristine' /\ BoardsOK'
<1> DEFINE old == job[t].surface
           r == job[t].receipt
<1>1. /\ TypeOK /\ TasksOK /\ TaskOK(t) /\ at \in [Tasks -> Places]
  BY DEF IInv, TypeOK, TasksOK
<1>2. /\ at[t] = "rebind" /\ bound' = (bound \ {old}) \cup {r}
      /\ UNCHANGED <<live, sent, flips, job, todo>>
      /\ at' = [at EXCEPT ![t] = "reorient"]
  BY DEF Rebind, workerVars, Goto
<1>3. job[t] # None /\ old \in Messages /\ r \in Messages /\ r # None
  BY <1>1, <1>2, Ground DEF TaskOK, WithJob
<1>4. Holding(t) /\ Known(old)
  BY <1>2, <1>3 DEF Holding, Known, Knows
<1>5. /\ r \in live /\ ~Known(r) /\ old # r /\ r <= sent
      /\ \A d \in Tasks : Holding(d) /\ job[d].receipt = r => d = t
  BY <1>4 DEF IInv, BoardsOK, Fresh, KnownAreSent
<1>6. \A d \in Tasks \ {t} :
         /\ at'[d] = at[d]
         /\ Holding(d)' <=> Holding(d)
         /\ \A m : Replacing(d, m)' <=> Replacing(d, m)
         /\ \A s : Orienting(d, s)' <=> Orienting(d, s)
  BY OthersKnow DEF Frame
<1>7. ~Holding(t)' /\ at'[t] = "reorient" /\ Orienting(t, r)'
      /\ \A s : ~Orienting(t, s)
  BY <1>1, <1>2 DEF Holding, Orienting
<1>8. \A d \in Tasks : \A m : Knows(d, m)' <=> Knows(d, m)
  BY <1>2 DEF Knows
<1>9. \A m : Known(m)' => Known(m) \/ m = r
  BY <1>2, <1>8 DEF Known
<1>10. Pristine'
  BY <1>2, <1>7, NotPristine
<1>11. KnownAreSent'
  <2>1. /\ \A m \in Messages : Known(m)' => m <= sent'
        /\ \A d \in Tasks : Holding(d)' => job'[d].receipt <= sent'
    BY <1>2, <1>5, <1>6, <1>7, <1>9 DEF IInv, BoardsOK, KnownAreSent
  <2> QED
    BY <2>1 DEF KnownAreSent, Messages, Worker!Messages
<1>12. Fresh'
  <2>1. ASSUME NEW d \in Tasks, Holding(d)'
        PROVE  /\ job'[d].receipt \in live'
               /\ (~Known(job[d].receipt))'
               /\ \A e \in Tasks : Holding(e)' /\ job'[e].receipt = job'[d].receipt
                                      => e = d
    <3>1. d # t /\ Holding(d) /\ job' = job /\ live' = live
      BY <1>2, <1>6, <1>7, <2>1
    <3>2. /\ job[d].receipt \in live /\ ~Known(job[d].receipt)
          /\ \A e \in Tasks : Holding(e) /\ job[e].receipt = job[d].receipt
                                 => e = d
      BY <3>1 DEF IInv, BoardsOK, Fresh
    <3>3. \A m : m = job[d].receipt => ~Known(m)'
      BY <1>5, <1>9, <3>1, <3>2
    <3>4. (~Known(job[d].receipt))'
      BY <3>1, <3>3 DEF Known, Knows
    <3>5. \A e \in Tasks : Holding(e)' => Holding(e)
      BY <1>6, <1>7
    <3> QED
      BY <3>1, <3>2, <3>4, <3>5
  <2> QED
    BY <2>1 DEF Fresh
<1>13. ReplacedIsGone'
  <2>1. ASSUME NEW d \in Tasks, at'[d] = "reorient"
        PROVE  job'[d].surface \notin bound' /\ job'[d].surface # job'[d].receipt
    <3>1. CASE d = t
      BY <1>2, <1>5, <3>1
    <3>2. CASE d # t
      <4>1. at[d] = "reorient"
        BY <1>6, <2>1, <3>2
      <4>2. /\ job[d].surface \notin bound /\ job[d].surface # job[d].receipt
            /\ job[d] # None
        BY <1>1, <4>1 DEF IInv, BoardsOK, ReplacedIsGone, TasksOK, TaskOK, WithJob
      <4>3. Known(job[d].surface)
        BY <4>2 DEF Known, Knows
      <4> QED
        BY <1>2, <1>5, <4>2, <4>3
    <3> QED
      BY <3>1, <3>2
  <2> QED
    BY <2>1 DEF ReplacedIsGone
<1>14. OrientationComes'
  BY <1>2, <1>6, <1>7 DEF IInv, BoardsOK, OrientationComes
<1>15. DeletedBoardsAreUnbound'
  <2>1. \A m \in bound \cap Messages :
           m \in live \/ \E d \in Tasks : Replacing(d, m)
    BY DEF IInv, BoardsOK, DeletedBoardsAreUnbound
  <2>2. \A m : Replacing(t, m) => m = old
    BY DEF Replacing
  <2>3. \A m \in bound' \cap Messages :
           m \in live' \/ \E d \in Tasks : Replacing(d, m)'
    BY <1>2, <1>5, <1>6, <2>1, <2>2
  <2> QED
    BY <2>3 DEF DeletedBoardsAreUnbound, Messages, Worker!Messages
<1>16. GameStaysReachable'
  BY <1>2, <1>5 DEF GameStaysReachable
<1> QED
  BY <1>10, <1>11, <1>12, <1>13, <1>14, <1>15, <1>16 DEF BoardsOK

-----------------------------------------------------------------------------
(* The invariant and what follows from it. *)

\* A game that has just been stored.
LEMMA InvInit == Init => IInv
<1> SUFFICES ASSUME Init PROVE IInv
  OBVIOUS
<1>1. PICK first \in Tasks :
         at = [t \in Tasks |-> IF t = first THEN "bindFirst" ELSE "idle"]
  BY DEF Init
<1>2. /\ phase = [t \in Tasks |-> "idle"] /\ work = [t \in Tasks |-> None]
      /\ queue = [s \in PrivateBoards |-> << >>]
      /\ sent = 1 /\ live = {1} /\ shown = [s \in Surfaces |-> 0]
  BY DEF Init, Worker!Init, Surfaces
<1>3. 0 \in Revision /\ 1 \in Surfaces /\ << >> \in Seq(Tasks) /\ live \subseteq 1 .. sent
  BY <1>2, Ground, BoundsAssumption, EmptySeq
<1>4. WorkerOK
  BY <1>2, <1>3, Ground DEF WorkerOK, Phases
<1>5. TaskTypes /\ GameTypes /\ WorkingIsAsking
  BY <1>1, <1>2, <1>3
  DEF Init, TaskTypes, GameTypes, WorkingIsAsking, Places
<1>6. TypeOK
  BY <1>4, <1>5, WorkerTypes DEF TypeOK, TaskTypes, GameTypes, WorkingIsAsking
<1>7. TasksOK
  BY <1>1 DEF Init, TasksOK, TaskOK, WithJob, WithList
<1>8. Pristine
  BY <1>1, <1>2, <1>3 DEF Init, Pristine
<1>9. \A t \in Tasks : ~Holding(t) /\ \A m : ~Knows(t, m)
  BY DEF Init, Holding, Knows
<1>10. KnownAreSent /\ Fresh
  BY <1>9 DEF Init, KnownAreSent, Fresh, Known
<1>11. ReplacedIsGone /\ OrientationComes
  BY <1>1 DEF Init, ReplacedIsGone, OrientationComes
<1>12. DeletedBoardsAreUnbound /\ GameStaysReachable
  BY <1>1 DEF Init, DeletedBoardsAreUnbound, GameStaysReachable
<1> QED
  BY <1>6, <1>7, <1>8, <1>10, <1>11, <1>12 DEF IInv, BoardsOK

\* What the worker does on its own does not concern the boards.
LEMMA WorkerAlone ==
    ASSUME IInv, Displace \/ UNCHANGED vars
    PROVE  TasksOK' /\ Pristine' /\ BoardsOK'
<1>1. UNCHANGED <<phase, work, sent, live, shown>>
  <2>1. CASE Displace
    BY <2>1 DEF Displace, Worker!Displace, Worker!chatVars
  <2>2. CASE UNCHANGED vars
    BY <2>2 DEF vars, workerVars
  <2> QED
    BY <2>1, <2>2
<1>2. UNCHANGED <<committed, bound, flips, at, held, job, todo, facing, turned>>
  BY DEF Displace, vars, bindingVars, taskVars, historyVars
<1>3. TasksOK' /\ Pristine'
  BY <1>1, <1>2 DEF IInv, TasksOK, TaskOK, Pristine, Messages, Worker!Messages
<1>4. BoardsOK'
  BY <1>1, <1>2
  DEF IInv, BoardsOK, KnownAreSent, Fresh, ReplacedIsGone, OrientationComes,
      DeletedBoardsAreUnbound, GameStaysReachable, Known, Knows, Holding,
      Orienting, Replacing, Messages, Worker!Messages
<1> QED
  BY <1>3, <1>4

\* Every step of the application keeps the invariant.
LEMMA InvStep == IInv /\ [Next]_vars => IInv'
<1> SUFFICES ASSUME IInv, [Next]_vars PROVE IInv'
  OBVIOUS
<1>1. TypeOK'
  BY TypesKept DEF IInv
<1>2. ASSUME NEW t \in Tasks, OwnStep(t) PROVE IInv'
  <2>1. Frame(t)
    BY <1>2, TaskFrame DEF Frame, IInv
  <2>2. TasksOK'
    BY <1>2, TasksKept DEF IInv
  <2>3. Pristine' /\ BoardsOK'
    BY <1>2, <2>1, FirstBoardBound, BoardSent, BoardCleaned, BoardRebound,
       CalmSteps, CalmKeeps
  <2> QED
    BY <1>1, <2>2, <2>3 DEF IInv
<1>3. CASE Displace \/ UNCHANGED vars
  BY <1>1, <1>3, WorkerAlone DEF IInv
<1> QED
  BY <1>2, <1>3 DEF Next, OwnStep

\* The invariant holds always.
LEMMA Invariance == Spec => []IInv
BY InvInit, InvStep, PTL DEF Spec

\* Every variable keeps its type, whatever the handlers do (main.rs: ChessApp).
THEOREM TypeInvariant == Spec => []TypeOK
<1>1. IInv => TypeOK
  BY DEF IInv
<1> QED
  BY <1>1, Invariance, PTL

\* However many handlers run and whatever fails, a game keeps a board that is
\* in the chat and bound, or a handler is about to bind one (main.rs:
\* project_rendered, replace_surface).
THEOREM GamesAreNeverLost == Spec => []GameStaysReachable
<1>1. IInv => GameStaysReachable
  BY DEF IInv, BoardsOK
<1> QED
  BY <1>1, Invariance, PTL

\* A board that is gone from the chat is not bound, except to the handler that
\* is replacing it (main.rs: replace_surface).
THEOREM NoDeletedBoardIsBound == Spec => []DeletedBoardsAreUnbound
<1>1. IInv => DeletedBoardsAreUnbound
  BY DEF IInv, BoardsOK
<1> QED
  BY <1>1, Invariance, PTL

\* When the handlers have returned, every surface of the game has an
\* orientation to flip (main.rs: register_surface, replace_surface,
\* flip_surface).
THEOREM BoardsCanBeFlipped == Spec => []EveryBoardFlips
<1>1. IInv => EveryBoardFlips
  BY DEF IInv, BoardsOK, OrientationComes, EveryBoardFlips, Settled, Orienting
<1> QED
  BY <1>1, Invariance, PTL

-----------------------------------------------------------------------------
(* One handler at a time: the others are idle, so one task is all there is. *)

\* What SerialInv says of the only task that may be active.
Solo(t) ==
    /\ Active(t) => UpToDate(t)
    /\ at[t] = "bindFirst" \/ \E m \in Messages : Boards = {m}
    /\ failed \/ \A s \in bound : Agrees(s) \/ (Active(t) /\ Owes(t, s))
    /\ \A m \in Boards : flips[m] = turned \/ Orienting(t, m)

OnlyActive(t) == \A d \in Tasks \ {t} : at[d] = "idle"

\* It is the same when the others are idle, before a step and after.
LEMMA SoloIsAll ==
    ASSUME NEW t \in Tasks, serial, serial'
    PROVE  /\ SerialInv /\ OnlyActive(t) => Solo(t)
           /\ Solo(t)' /\ OnlyActive(t)' => SerialInv'
<1>1. ASSUME SerialInv, OnlyActive(t) PROVE Solo(t)
  <2>1. \A d \in Tasks : Active(d) => d = t
    BY <1>1 DEF OnlyActive, Active
  <2>2. \A d \in Tasks : \A s : Orienting(d, s) => d = t
    BY <2>1 DEF Orienting, Active
  <2>3. at[t] = "bindFirst" \/ \E m \in Messages : Boards = {m}
    BY <1>1, <2>1 DEF SerialInv, OneBoard, Active
  <2>4. \A m \in Boards : flips[m] = turned \/ Orienting(t, m)
    BY <1>1, <2>2 DEF SerialInv, OrientationMoves
  <2>5. failed \/ \A s \in bound : Agrees(s) \/ (Active(t) /\ Owes(t, s))
    BY <1>1, <2>1 DEF SerialInv, AgreementComes
  <2> QED
    BY <1>1, <2>3, <2>4, <2>5 DEF SerialInv, Solo
<1>2. ASSUME Solo(t)', OnlyActive(t)' PROVE SerialInv'
  <2>1. \A d \in Tasks : Active(d)' => d = t
    BY <1>2 DEF OnlyActive, Active
  <2>2. (Active(t) => UpToDate(t))'
    BY <1>2 DEF Solo
  <2>3. OneAtATime' /\ (\A d \in Tasks : Active(d) => UpToDate(d))'
    BY <2>1, <2>2 DEF OneAtATime
  <2>4. OneBoard'
    BY <1>2 DEF Solo, OneBoard
  <2>5. AgreementComes'
    BY <1>2 DEF Solo, AgreementComes
  <2>6. OrientationMoves'
    BY <1>2 DEF Solo, OrientationMoves
  <2> QED
    BY <2>3, <2>4, <2>5, <2>6 DEF SerialInv
<1> QED
  BY <1>1, <1>2

\* A click is taken when nobody is active, and only an active task steps.
LEMMA OneSteps ==
    ASSUME IInv, SerialInv, serial, NEW t \in Tasks, OwnStep(t), Frame(t)
    PROVE  OnlyActive(t) /\ OnlyActive(t)'
<1>1. OnlyActive(t)
  <2>1. CASE \E s \in Surfaces : Receive(t, s)
    BY <2>1 DEF Receive, OnlyActive
  <2>2. CASE Step(t)
    <3>1. CASE \/ Admit(t) \/ Edited(t) \/ Lost(t) \/ Sent(t) \/ Cleaned(t)
      <4>1. phase[t] # "idle"
        BY <3>1, WorkerSteps DEF Admit, Edited, Lost, Sent, Cleaned, IInv
      <4> QED
        BY <4>1 DEF IInv, TypeOK, SerialInv, OneAtATime, Active, OnlyActive
    <3>2. CASE ~(\/ Admit(t) \/ Edited(t) \/ Lost(t) \/ Sent(t) \/ Cleaned(t))
      <4>1. at[t] # "idle"
        BY <2>2, <3>2 DEF Step, BindFirst, OrientFirst, Flip, Commit,
           CommitUnanswered, CommitLost, SendPrivate, PrivateFails,
           BindPrivate, OrientPrivate, EngineCommit, EngineFails, List,
           Project, Projected, Rebind, Reorient
      <4> QED
        BY <4>1 DEF SerialInv, OneAtATime, Active, OnlyActive
    <3> QED
      BY <3>1, <3>2
  <2> QED
    BY <2>1, <2>2 DEF OwnStep
<1> QED
  BY <1>1 DEF OnlyActive, Frame

\* What the proofs below use of the types.
Typed(t) ==
    /\ at \in [Tasks -> Places] /\ held \in [Tasks -> Revision]
    /\ job \in [Tasks -> Job \cup {None}] /\ todo \in [Tasks -> SUBSET Spot]
    /\ flips \in [Surfaces -> BOOLEAN \cup {None}]
    /\ facing \in [Surfaces -> BOOLEAN] /\ shown \in [Surfaces -> Revision]
    /\ bound \subseteq Surfaces /\ turned \in BOOLEAN
    /\ committed \in Revision /\ TaskOK(t)
    /\ at[t] = "working" <=> phase[t] # "idle"

\* They come from the invariant.
LEMMA TypesOfTask ==
    ASSUME TypeOK, TasksOK, NEW t \in Tasks
    PROVE  Typed(t)
BY WorkerTypes DEF TypeOK, TasksOK, WorkerOK, Typed

\* A handler that returns after it lost a projection owes nothing more
\* (main.rs: project_rendered).
LEMMA SoloLost ==
    ASSUME NEW t \in Tasks, Typed(t), Solo(t), Finish(t), failed' = TRUE,
           UNCHANGED <<bound, flips, turned>>,
           at[t] \in {"flip", "commit", "join", "working"}
    PROVE  Solo(t)'
<1>1. at'[t] = "idle"
  BY DEF Typed, Finish, Goto
<1>2. \A m : ~Orienting(t, m)
  BY DEF Orienting
<1>3. ~Active(t)'
  BY <1>1 DEF Active
<1>4. (\E m \in Messages : Boards = {m}) /\ \A m \in Boards : flips[m] = turned
  BY <1>2 DEF Solo
<1>5. (\E m \in Messages : Boards = {m})' /\ (\A m \in Boards : flips[m] = turned)'
  BY <1>4 DEF Boards, Messages, Worker!Messages
<1> QED
  BY <1>3, <1>5 DEF Solo

\* A handler that returns when its list is empty leaves all in agreement.
LEMMA SoloReturns ==
    ASSUME NEW t \in Tasks, Typed(t), Solo(t), Finish(t), todo[t] = {},
           UNCHANGED <<bound, flips, turned, failed, shown, facing, committed>>,
           at[t] \in {"flip", "commit", "join", "project"}
    PROVE  Solo(t)'
<1>1. at'[t] = "idle"
  BY DEF Typed, Finish, Goto
<1>2. \A m : ~Orienting(t, m) /\ ~Owes(t, m)
  BY DEF Orienting, Owes
<1>3. ~Active(t)'
  BY <1>1 DEF Active
<1>4. /\ (\E m \in Messages : Boards = {m}) /\ \A m \in Boards : flips[m] = turned
      /\ failed \/ \A s \in bound : Agrees(s)
  BY <1>2 DEF Solo
<1>5. /\ (\E m \in Messages : Boards = {m})' /\ (\A m \in Boards : flips[m] = turned)'
      /\ (failed \/ \A s \in bound : Agrees(s))'
  BY <1>4 DEF Boards, Agrees, Messages, Worker!Messages
<1> QED
  BY <1>3, <1>5 DEF Solo

\* Where everything is still to be projected.
BeforeList == {"private", "bindPrivate", "orientPrivate", "engine", "list"}

\* A handler on its way to project_record owes every surface.
LEMMA SoloOwesAll ==
    ASSUME NEW t \in Tasks, Typed(t), Typed(t)', Solo(t), at'[t] \in BeforeList,
           at[t] \in {"commit", "join"} \cup BeforeList,
           UNCHANGED turned, bound' \cap Messages = bound \cap Messages,
           \A m \in Messages : flips'[m] = flips[m],
           held'[t] = committed'
    PROVE  Solo(t)'
<1>1. Active(t)' /\ \A s : Owes(t, s)'
  BY DEF Active, Owes, BeforeList
<1>2. todo'[t] = {}
  BY DEF Typed, TaskOK, WithList, BeforeList
<1>3. UpToDate(t)'
  BY <1>2 DEF UpToDate, BeforeList
<1>4. \A m \in Messages : ~Orienting(t, m)
  BY Ground DEF Orienting, BeforeList, Typed, TaskOK
<1>5. (\E m \in Messages : Boards = {m}) /\ \A m \in Boards : flips[m] = turned
  BY <1>4 DEF Solo, BeforeList, Boards
<1>6. Boards' = Boards
  BY DEF Boards, Messages, Worker!Messages
<1>7. (\E m \in Messages : Boards = {m})' /\ (\A m \in Boards : flips[m] = turned)'
  <2>1. \E m \in Messages : Boards' = {m}
    BY <1>5, <1>6
  <2>2. \A m \in Boards' : flips'[m] = turned'
    BY <1>5, <1>6 DEF Boards
  <2> QED
    BY <2>1, <2>2 DEF Messages, Worker!Messages
<1> QED
  BY <1>1, <1>3, <1>7 DEF Solo

\* The first board and its orientation (main.rs: register_surface).
LEMMA SoloFirst ==
    ASSUME IInv, NEW t \in Tasks, Typed(t), Typed(t)', Solo(t),
           BindFirst(t) \/ OrientFirst(t)
    PROVE  Solo(t)'
<1>1. 1 \in Messages /\ todo[t] = {}
  BY Ground DEF Typed, TaskOK, WithList, BindFirst, OrientFirst
<1>2. CASE BindFirst(t)
  <2>1. /\ at[t] = "bindFirst" /\ at'[t] = "orientFirst" /\ bound' = bound \cup {1}
        /\ UNCHANGED <<shown, facing, turned, committed, held, todo, flips>>
    BY <1>2 DEF BindFirst, Goto, Typed, workerVars, historyVars
  <2>2. /\ bound = {} /\ shown[1] = 0 /\ facing[1] = FALSE /\ turned = FALSE
        /\ committed = 0 /\ held[t] = 0
    BY <2>1 DEF IInv, Pristine
  <2>3. UpToDate(t)'
    BY <1>1, <2>1, <2>2 DEF UpToDate
  <2>4. Boards' = {1}
    BY <1>1, <2>1, <2>2 DEF Boards, Messages, Worker!Messages
  <2>5. (\E m \in Messages : Boards = {m})'
    BY <1>1, <2>4 DEF Messages, Worker!Messages
  <2>6. Active(t)' /\ Orienting(t, 1)'
    BY <2>1 DEF Active, Orienting
  <2>7. \A s \in bound' : Active(t)' /\ Owes(t, s)'
    BY <2>1, <2>2, <2>6 DEF Owes
  <2>8. \A m \in Boards' : Orienting(t, m)'
    BY <2>4, <2>6
  <2> QED
    BY <2>3, <2>5, <2>7, <2>8 DEF Solo
<1>3. CASE OrientFirst(t)
  <2>1. /\ at[t] = "orientFirst" /\ at'[t] = "idle"
        /\ flips' = [flips EXCEPT ![1] = FALSE]
        /\ UNCHANGED <<bound, shown, facing, turned, committed, failed>>
    BY <1>3 DEF OrientFirst, Finish, Goto, Typed, workerVars, historyVars
  <2>2. shown[1] = committed /\ facing[1] = FALSE /\ turned = FALSE
    BY <2>1 DEF Solo, Active, UpToDate
  <2>3. \A s \in bound : flips'[s] = IF s = 1 THEN FALSE ELSE flips[s]
    BY <2>1 DEF Typed
  <2>4. failed \/ \A s \in bound : Agrees(s) \/ s = 1
    BY <1>1, <2>1 DEF Solo, Owes, Orienting
  <2>5. failed' \/ \A s \in bound' : Agrees(s)'
    BY <2>1, <2>2, <2>3, <2>4 DEF Agrees
  <2>6. \A m \in Boards : flips[m] = turned \/ m = 1
    BY <2>1 DEF Solo, Orienting
  <2>7. Boards' = Boards /\ Boards \subseteq bound
    BY <2>1 DEF Boards, Messages, Worker!Messages
  <2>8. \A m \in Boards' : flips'[m] = turned'
    BY <2>1, <2>2, <2>3, <2>6, <2>7
  <2>9. (\E m \in Messages : Boards = {m})'
    <3>1. \E m \in Messages : Boards' = {m}
      BY <2>1, <2>7 DEF Solo
    <3> QED
      BY <3>1 DEF Messages, Worker!Messages
  <2>10. ~Active(t)'
    BY <2>1 DEF Active
  <2> QED
    BY <2>5, <2>8, <2>9, <2>10 DEF Solo
<1> QED
  BY <1>2, <1>3

\* A step that leaves the boards and their orientations alone.
LEMMA SoloSameBoards ==
    ASSUME NEW t \in Tasks, Solo(t),
           at[t] \notin {"bindFirst", "orientFirst", "orientPrivate", "reorient"},
           UNCHANGED <<bound, flips, turned>>
    PROVE  /\ (\E m \in Messages : Boards = {m})'
           /\ (\A m \in Boards : flips[m] = turned)'
<1>1. Boards' = Boards
  BY DEF Boards, Messages, Worker!Messages
<1>2. /\ \E m \in Messages : Boards = {m}
      /\ \A m \in Boards : flips[m] = turned
  BY DEF Solo, Orienting
<1>3. /\ \E m \in Messages : Boards' = {m}
      /\ \A m \in Boards' : flips'[m] = turned'
  BY <1>1, <1>2 DEF Boards
<1> QED
  BY <1>3 DEF Messages, Worker!Messages

\* A click reads the newest record, and the list is of what is bound
\* (main.rs: handle_callback, surfaces_for).
LEMMA SoloReads ==
    ASSUME IInv, NEW t \in Tasks, Typed(t), Typed(t)', Solo(t), OnlyActive(t),
           List(t) \/ \E s \in Surfaces : Receive(t, s)
    PROVE  Solo(t)'
<1>1. CASE List(t)
  <2> DEFINE all == {[surface |-> s, flipped |-> flips[s] = TRUE] : s \in bound}
  <2>1. /\ at[t] = "list" /\ at'[t] = "project" /\ todo'[t] = all
        /\ failed' = FALSE
        /\ UNCHANGED <<bound, flips, shown, facing, turned, committed, held>>
    BY <1>1 DEF List, Goto, Typed, bindingVars, workerVars
  <2>2. \A s \in bound : (flips[s] = TRUE) = flips[s]
    <3>1. \A s \in bound : flips[s] # None
      BY <2>1 DEF IInv, BoardsOK, OrientationComes, Orienting, OnlyActive
    <3> QED
      BY <3>1 DEF Typed
  <2>3. \A s \in bound : [surface |-> s, flipped |-> flips[s]] \in all
    <3> TAKE s \in bound
    <3>1. [surface |-> s, flipped |-> flips[s] = TRUE] \in all
      OBVIOUS
    <3>2. [surface |-> s, flipped |-> flips[s] = TRUE]
             = [surface |-> s, flipped |-> flips[s]]
      BY <2>2
    <3> HIDE DEF all
    <3> QED
      BY <3>1, <3>2
  <2>4. \A spot \in all : /\ spot.surface \in bound
                          /\ spot.flipped = flips[spot.surface]
    BY <2>2
  <2> HIDE DEF all
  <2>5. held[t] = committed
    BY <2>1 DEF Solo, Active, UpToDate
  <2>6. UpToDate(t)'
    BY <2>1, <2>4, <2>5 DEF UpToDate
  <2>7. \A s \in bound' : Owes(t, s)'
    BY <2>1, <2>3 DEF Owes
  <2>8. Active(t)'
    BY <2>1 DEF Active
  <2>9. /\ (\E m \in Messages : Boards = {m})'
        /\ (\A m \in Boards : flips[m] = turned)'
    BY <2>1, SoloSameBoards
  <2> QED
    BY <2>6, <2>7, <2>8, <2>9 DEF Solo
<1>2. ASSUME NEW p \in Surfaces, Receive(t, p) PROVE Solo(t)'
  <2>1. /\ at[t] = "idle" /\ at'[t] \in {"flip", "commit", "join"} /\ p \in bound
        /\ held'[t] = committed
        /\ job'[t] = [surface |-> p, flipped |-> FALSE, receipt |-> None]
        /\ UNCHANGED <<bound, flips, shown, facing, turned, committed, todo,
                       failed>>
    BY <1>2 DEF Receive, WorkOn, Goto, Typed, bindingVars, workerVars, historyVars
  <2>2. todo'[t] = {} /\ job'[t].surface = p
    BY <2>1 DEF Typed, TaskOK, WithList
  <2>3. UpToDate(t)'
    BY <2>1, <2>2 DEF UpToDate
  <2>4. failed \/ \A s \in bound : Agrees(s)
    BY <2>1 DEF Solo, Active
  <2>5. failed' \/ \A s \in bound' : Agrees(s)'
    BY <2>1, <2>4 DEF Agrees
  <2>6. /\ (\E m \in Messages : Boards = {m})'
        /\ (\A m \in Boards : flips[m] = turned)'
    BY <2>1, SoloSameBoards
  <2> QED
    BY <2>3, <2>5, <2>6 DEF Solo
<1> QED
  BY <1>1, <1>2

\* A flip turns the surface of the click, and the shared board if it was the
\* one (main.rs: flip_surface).
LEMMA SoloFlips ==
    ASSUME NEW t \in Tasks, serial = TRUE, Typed(t), Typed(t)', Solo(t), Flip(t)
    PROVE  Solo(t)'
<1> DEFINE s0 == job[t].surface
           b == ~flips[s0]
<1>1. /\ at[t] = "flip" /\ todo[t] = {}
      /\ UNCHANGED <<bound, shown, facing, committed>>
  BY DEF Flip, Typed, TaskOK, WithList, workerVars
<1>2. /\ s0 \in bound /\ held[t] = committed
      /\ \A m : ~Orienting(t, m) /\ ~Owes(t, m)
  BY <1>1 DEF Solo, Active, UpToDate, Orienting, Owes
<1>3. CASE flips[s0] = None
  <2>1. Finish(t) /\ UNCHANGED <<flips, failed, turned>>
    BY <1>3 DEF Flip, historyVars
  <2> QED
    BY <1>1, <2>1, SoloReturns
<1>4. CASE flips[s0] # None
  <2>1. /\ flips' = [flips EXCEPT ![s0] = b]
        /\ turned' = (turned # (s0 \in Messages))
        /\ \/ /\ todo' = [todo EXCEPT ![t] = {[surface |-> s0, flipped |-> b]}]
              /\ Goto(t, "project") /\ UNCHANGED <<held, failed>>
           \/ Finish(t) /\ failed' = TRUE
    BY <1>4 DEF Flip, AnswerFails
  <2>2. flips[s0] \in BOOLEAN /\ b \in BOOLEAN /\ turned \in BOOLEAN
    BY <1>2, <1>4 DEF Typed
  <2>3. flips[s0] = turned => b = (turned # TRUE)
    BY <2>2
  <2>4. /\ \A m \in Boards : flips[m] = turned
        /\ failed \/ \A s \in bound : Agrees(s)
    BY <1>2 DEF Solo
  <2>5. PICK m \in Messages : Boards = {m}
    BY <1>1 DEF Solo
  <2>6. Boards' = {m}
    BY <1>1, <2>5 DEF Boards, Messages, Worker!Messages
  <2>7. flips'[m] = turned'
    <3>1. m \in bound /\ m \in Messages
      BY <2>5 DEF Boards
    <3>2. CASE s0 \in Messages
      <4>1. s0 = m
        BY <1>2, <2>5, <3>2 DEF Boards
      <4>2. turned' = (turned # TRUE)
        BY <2>1, <3>2
      <4>3. flips'[m] = b
        BY <2>1, <3>1, <4>1 DEF Typed
      <4>4. flips[s0] = turned
        BY <2>4, <2>5, <4>1
      <4> QED
        BY <2>3, <4>2, <4>3, <4>4
    <3>3. CASE s0 \notin Messages
      <4>1. s0 # m /\ flips[m] = turned
        BY <2>4, <2>5, <3>1, <3>3
      <4>2. flips'[m] = flips[m]
        BY <2>1, <3>1, <4>1 DEF Typed
      <4> DEFINE f == s0 \in Messages
      <4>5. f = FALSE
        BY <3>3
      <4>6. turned' = (turned # f)
        BY <2>1
      <4> HIDE DEF f
      <4>3. turned' = (turned # FALSE)
        BY <4>5, <4>6
      <4>4. (turned # FALSE) = turned
        BY <2>2
      <4> QED
        BY <4>1, <4>2, <4>3, <4>4
    <3> QED
      BY <3>2, <3>3
  <2>8. /\ (\E x \in Messages : Boards = {x})'
        /\ (\A x \in Boards : flips[x] = turned)'
    BY <2>6, <2>7 DEF Messages, Worker!Messages
  <2>9. \A s \in bound : flips'[s] = IF s = s0 THEN b ELSE flips[s]
    <3> HIDE DEF b
    <3> QED
      BY <2>1 DEF Typed
  <2>10. CASE Finish(t) /\ failed' = TRUE
    <3>1. ~Active(t)'
      BY <2>10 DEF Finish, Goto, Typed, Active
    <3> QED
      BY <2>8, <2>10, <3>1 DEF Solo
  <2>11. CASE /\ todo' = [todo EXCEPT ![t] = {[surface |-> s0, flipped |-> b]}]
              /\ Goto(t, "project") /\ UNCHANGED <<held, failed>>
    <3> DEFINE spot == [surface |-> s0, flipped |-> b]
    <3>1. at'[t] = "project" /\ todo'[t] = {spot}
      BY <2>11 DEF Goto, Typed
    <3>2. spot.surface = s0 /\ spot.flipped = b /\ flips'[s0] = b
      BY <1>2, <2>9
    <3>3. spot = [surface |-> s0, flipped |-> flips'[s0]]
      BY <3>2
    <3> HIDE DEF spot, b
    <3>4. UpToDate(t)'
      BY <1>1, <1>2, <2>11, <3>1, <3>2 DEF UpToDate
    <3>5. Active(t)'
      BY <3>1 DEF Active
    <3>6. \A s \in bound : s = s0 => Owes(t, s)'
      BY <3>1, <3>3 DEF Owes
    <3>7. failed \/ \A s \in bound : s # s0 => Agrees(s)'
      BY <1>1, <2>4, <2>9 DEF Agrees
    <3>8. (failed \/ \A s \in bound : Agrees(s) \/ (Active(t) /\ Owes(t, s)))'
      BY <1>1, <2>11, <3>5, <3>6, <3>7
    <3> QED
      BY <2>8, <3>4, <3>8 DEF Solo
  <2> QED
    BY <2>1, <2>10, <2>11
<1> QED
  BY <1>3, <1>4

\* The next surface of the list goes to the worker (main.rs: project_rendered).
LEMMA SoloProjects ==
    ASSUME TypeOK, NEW t \in Tasks, Typed(t), Typed(t)', Solo(t),
           NEW spot \in todo[t], Project(t, spot)
    PROVE  Solo(t)'
<1>1. /\ Worker!Enter(t, spot.surface, held[t])
      /\ at[t] = "project" /\ at'[t] = "working"
      /\ todo'[t] = todo[t] \ {spot}
      /\ job'[t] = [surface |-> spot.surface, flipped |-> spot.flipped,
                    receipt |-> None]
      /\ UNCHANGED <<bound, flips, facing, turned, committed, held, failed>>
  BY DEF Project, WorkOn, Goto, Typed, bindingVars, historyVars
<1>2. shown' = shown
  BY <1>1, WorkerSteps
<1>3. /\ job'[t].surface = spot.surface /\ job'[t].flipped = spot.flipped
      /\ job'[t].receipt = None
  BY <1>1
<1>4. /\ held[t] = committed
      /\ \A x \in todo[t] : x.surface \in bound /\ x.flipped = flips[x.surface]
  BY <1>1 DEF Solo, Active, UpToDate
<1>5. \A x \in todo[t] :
         x = [surface |-> x.surface, flipped |-> x.flipped]
  BY DEF Typed, Spot
<1>6. \A x \in todo[t] : x.surface = spot.surface => x = spot
  <2>1. \A x \in todo[t] : x.surface = spot.surface => x.flipped = spot.flipped
    BY <1>4
  <2> QED
    BY <1>5, <2>1
<1>7. UpToDate(t)'
  <2>1. \A x \in todo'[t] : x \in todo[t] /\ x.surface # spot.surface
    BY <1>1, <1>6
  <2> QED
    BY <1>1, <1>3, <1>4, <2>1 DEF UpToDate
<1>8. Active(t)'
  BY <1>1 DEF Active
<1>9. \A s \in bound : Owes(t, s) => Owes(t, s)'
  <2> TAKE s \in bound
  <2> HAVE Owes(t, s)
  <2> DEFINE x == [surface |-> s, flipped |-> flips[s]]
  <2>1. x \in todo[t]
    BY <1>1 DEF Owes, Orienting
  <2>2. CASE x = spot
    <3>1. s = spot.surface
      BY <2>2
    <3> QED
      BY <1>1, <1>3, <3>1 DEF Owes
  <2>3. CASE x # spot
    <3>1. x \in todo'[t] /\ flips' = flips
      BY <1>1, <2>1, <2>3
    <3> QED
      BY <3>1 DEF Owes
  <2> QED
    BY <2>2, <2>3
<1>10. (failed \/ \A s \in bound : Agrees(s) \/ (Active(t) /\ Owes(t, s)))'
  <2>1. \A s : Agrees(s)' <=> Agrees(s)
    BY <1>1, <1>2 DEF Agrees
  <2> QED
    BY <1>1, <1>8, <1>9, <2>1 DEF Solo
<1>11. /\ (\E m \in Messages : Boards = {m})'
       /\ (\A m \in Boards : flips[m] = turned)'
  BY <1>1, SoloSameBoards
<1> QED
  BY <1>7, <1>8, <1>10, <1>11 DEF Solo

\* Waiting in the worker, or cleaning up, changes nothing of it.
LEMMA SoloWaits ==
    ASSUME NEW t \in Tasks, Typed(t), Solo(t), at[t] = "working",
           at'[t] \in {"working", "rebind"},
           UNCHANGED <<bound, flips, facing, shown, turned, committed, held,
                       job, todo, failed>>
    PROVE  Solo(t)'
<1>1. /\ Active(t) /\ Active(t)' /\ UpToDate(t)'
      /\ \A s : (Owes(t, s) => Owes(t, s)') /\ (Agrees(s) => Agrees(s)')
  BY DEF Active, Solo, UpToDate, Owes, Orienting, Agrees
<1>2. /\ (\E m \in Messages : Boards = {m})'
      /\ (\A m \in Boards : flips[m] = turned)'
  BY SoloSameBoards
<1>3. (failed \/ \A s \in bound : Agrees(s) \/ (Active(t) /\ Owes(t, s)))'
  BY <1>1 DEF Solo
<1> QED
  BY <1>1, <1>2, <1>3 DEF Solo

\* An edit brings its surface up to date (main.rs: project_rendered).
LEMMA SoloEdited ==
    ASSUME TypeOK, serial = TRUE, NEW t \in Tasks, Typed(t), Typed(t)', Solo(t),
           Edited(t)
    PROVE  Solo(t)'
<1> DEFINE s0 == job[t].surface
<1>1. /\ Worker!Apply(t)
      /\ facing' = [facing EXCEPT ![s0] = job[t].flipped]
      /\ UNCHANGED <<bound, flips, turned, committed>>
      /\ \/ Goto(t, "project") /\ UNCHANGED <<held, job, todo, failed>>
         \/ Finish(t) /\ failed' = TRUE
  BY DEF Edited, bindingVars
<1>2. /\ phase[t] = "edit"
      /\ shown' = [shown EXCEPT ![work[t].surface] = work[t].revision]
  BY <1>1, WorkerSteps
<1>3. at[t] = "working" /\ work[t].surface = s0 /\ work[t].revision = held[t]
  BY <1>2 DEF Typed, TaskOK
<1>4. /\ held[t] = committed /\ s0 \in bound /\ job[t].flipped = flips[s0]
      /\ \A spot \in todo[t] : /\ spot.surface \in bound
                               /\ spot.flipped = flips[spot.surface]
  BY <1>3 DEF Solo, Active, UpToDate
<1>5. CASE Finish(t) /\ failed' = TRUE
  BY <1>1, <1>3, <1>5, SoloLost
<1>6. CASE Goto(t, "project") /\ UNCHANGED <<held, job, todo, failed>>
  <2>1. at'[t] = "project"
    BY <1>6 DEF Goto, Typed
  <2>2. Active(t)' /\ UpToDate(t)'
    BY <1>1, <1>4, <1>6, <2>1 DEF Active, UpToDate
  <2>3. /\ \A s \in bound : shown'[s] = IF s = s0 THEN committed ELSE shown[s]
        /\ \A s \in bound : facing'[s] = IF s = s0 THEN flips[s0] ELSE facing[s]
    BY <1>1, <1>2, <1>3, <1>4 DEF Typed
  <2>4. \A s \in bound : Owes(t, s) => s = s0 \/ Owes(t, s)'
    BY <1>1, <1>3, <1>6, <2>1 DEF Owes, Orienting
  <2>5. \A s \in bound : s = s0 \/ Agrees(s) => Agrees(s)'
    BY <1>1, <2>3 DEF Agrees
  <2>6. (failed \/ \A s \in bound : Agrees(s) \/ (Active(t) /\ Owes(t, s)))'
    BY <1>1, <1>6, <2>2, <2>4, <2>5 DEF Solo
  <2>7. /\ (\E m \in Messages : Boards = {m})'
        /\ (\A m \in Boards : flips[m] = turned)'
    BY <1>1, <1>3, SoloSameBoards
  <2> QED
    BY <2>2, <2>6, <2>7 DEF Solo
<1> QED
  BY <1>1, <1>5, <1>6

\* A new board shows what its handler holds (src/surface.rs: replace_message).
LEMMA SoloSent ==
    ASSUME IInv, NEW t \in Tasks, Typed(t), Typed(t)', Solo(t), Sent(t)
    PROVE  Solo(t)'
<1> DEFINE n == sent + 1
           s0 == job[t].surface
<1>1. /\ Worker!Send(t) /\ facing' = [facing EXCEPT ![n] = job[t].flipped]
      /\ job' = [job EXCEPT ![t] = [job[t] EXCEPT !.receipt = n]]
      /\ UNCHANGED <<bound, flips, turned, committed, at, held, todo, failed>>
  BY DEF Sent, bindingVars, historyVars
<1>2. /\ phase[t] = "send" /\ Appears(t)
  BY <1>1, WorkerSteps DEF IInv
<1>3. /\ at[t] = "working" /\ work[t].revision = held[t] /\ job[t] # None
  BY <1>2 DEF Typed, TaskOK, WithJob
<1>4. /\ n \in Messages /\ shown' = [shown EXCEPT ![n] = work[t].revision]
  BY <1>2 DEF Appears
<1>5. /\ job[t] \in Job /\ job'[t].surface = s0
      /\ job'[t].flipped = job[t].flipped /\ job'[t].receipt = n
  BY <1>1, <1>3, <1>4 DEF Typed, Job
<1>6. sent \in Nat /\ n # None /\ n \in Surfaces
  BY <1>4, Ground, WorkerTypes DEF IInv, TypeOK, WorkerOK
<1>7. ~Known(n)
  BY <1>4, <1>6 DEF IInv, BoardsOK, KnownAreSent
<1>8. n \notin bound /\ n # s0 /\ \A x \in todo[t] : x.surface # n
  BY <1>3, <1>7 DEF Known, Knows
<1>9. /\ held[t] = committed /\ s0 \in bound /\ job[t].flipped = flips[s0]
      /\ \A x \in todo[t] : /\ x.surface \in bound
                            /\ x.flipped = flips[x.surface]
                            /\ x.surface # s0
  BY <1>3 DEF Solo, Active, UpToDate
<1>10. shown'[n] = committed /\ facing'[n] = job[t].flipped
  BY <1>1, <1>3, <1>4, <1>6, <1>9 DEF Typed
<1>11. UpToDate(t)' /\ Active(t)'
  BY <1>1, <1>3, <1>5, <1>8, <1>9, <1>10 DEF UpToDate, Active
<1>12. \A s \in bound : Agrees(s) => Agrees(s)'
  BY <1>1, <1>4, <1>8 DEF Agrees, Typed
<1>13. \A s : Owes(t, s) => Owes(t, s)'
  BY <1>1, <1>3, <1>5 DEF Owes, Orienting
<1>14. (failed \/ \A s \in bound : Agrees(s) \/ (Active(t) /\ Owes(t, s)))'
  BY <1>1, <1>11, <1>12, <1>13 DEF Solo
<1>15. /\ (\E m \in Messages : Boards = {m})'
       /\ (\A m \in Boards : flips[m] = turned)'
  BY <1>1, <1>3, SoloSameBoards
<1> QED
  BY <1>11, <1>14, <1>15 DEF Solo

\* The new board takes the place of the old one, and then its orientation
\* (main.rs: replace_surface).
LEMMA SoloReplaces ==
    ASSUME IInv, NEW t \in Tasks, Typed(t), Typed(t)', Solo(t),
           Rebind(t) \/ Reorient(t)
    PROVE  Solo(t)'
<1> DEFINE old == job[t].surface
           r == job[t].receipt
<1>1. /\ old \in Messages /\ r \in Messages /\ r # None /\ job[t] # None
      /\ old \in Surfaces /\ r \in Surfaces
  BY Ground DEF Typed, TaskOK, Rebind, Reorient, WithJob
<1>2. CASE Rebind(t)
  <2>1. /\ at[t] = "rebind" /\ at'[t] = "reorient"
        /\ bound' = (bound \ {old}) \cup {r}
        /\ UNCHANGED <<flips, shown, facing, turned, committed, held, job,
                       todo, failed>>
    BY <1>2 DEF Rebind, Goto, Typed, workerVars, historyVars
  <2>2. /\ held[t] = committed /\ old \in bound /\ job[t].flipped = flips[old]
        /\ shown[r] = committed /\ facing[r] = job[t].flipped
        /\ \A x \in todo[t] : /\ x.surface \in bound
                              /\ x.flipped = flips[x.surface]
                              /\ x.surface # old /\ x.surface # r
    BY <1>1, <2>1 DEF Solo, Active, UpToDate
  <2>3. Boards = {old} /\ flips[old] = turned
    <3>1. old \in Boards
      BY <1>1, <2>2 DEF Boards
    <3>2. \E m \in Messages : Boards = {m}
      BY <2>1 DEF Solo
    <3>3. flips[old] = turned
      BY <2>1, <3>1 DEF Solo, Orienting
    <3> QED
      BY <3>1, <3>2, <3>3
  <2>4. Boards' = {r}
    BY <1>1, <2>1, <2>3 DEF Boards, Messages, Worker!Messages
  <2>5. (\E m \in Messages : Boards = {m})'
    BY <1>1, <2>4 DEF Messages, Worker!Messages
  <2>6. \A m \in Boards' : Orienting(t, m)'
    BY <2>1, <2>4 DEF Orienting
  <2>7. UpToDate(t)' /\ Active(t)'
    BY <2>1, <2>2, <2>3 DEF UpToDate, Active
  <2>8. \A s \in bound : Agrees(s) => Agrees(s)'
    BY <2>1 DEF Agrees
  <2>9. \A s \in bound \ {old} : Owes(t, s) => Owes(t, s)'
    BY <2>1 DEF Owes, Orienting
  <2>10. Owes(t, r)'
    BY <2>1 DEF Owes, Orienting
  <2>11. (failed \/ \A s \in bound : Agrees(s) \/ (Active(t) /\ Owes(t, s)))'
    <3>1. failed' \/ \A s \in bound \ {old} : Agrees(s)' \/ Owes(t, s)'
      BY <2>1, <2>8, <2>9 DEF Solo
    <3>2. failed' \/ \A s \in bound' : Agrees(s)' \/ (Active(t)' /\ Owes(t, s)')
      <4>1. ASSUME NEW s \in bound', ~failed'
            PROVE  Agrees(s)' \/ (Active(t)' /\ Owes(t, s)')
        <5>1. CASE s = r
          <6>1. Owes(t, s)'
            BY <2>1, <5>1 DEF Owes, Orienting
          <6> QED
            BY <2>7, <6>1
        <5>2. CASE s # r
          BY <2>1, <2>7, <3>1, <4>1, <5>2
        <5> QED
          BY <5>1, <5>2
      <4> QED
        BY <4>1
    <3> QED
      BY <3>2
  <2> QED
    BY <2>5, <2>6, <2>7, <2>11 DEF Solo
<1>3. CASE Reorient(t)
  <2> DEFINE b == flips[old] = TRUE
  <2>1. /\ at[t] = "reorient" /\ at'[t] = "project"
        /\ flips' = [flips EXCEPT ![old] = None, ![r] = b]
        /\ UNCHANGED <<bound, shown, facing, turned, committed, held, job,
                       todo, failed>>
    BY <1>3 DEF Reorient, Goto, Typed, workerVars, historyVars
  <2>2. /\ held[t] = committed /\ job[t].flipped = flips[old]
        /\ shown[r] = committed /\ facing[r] = job[t].flipped
        /\ flips[old] = turned
        /\ \A x \in todo[t] : /\ x.surface \in bound
                              /\ x.flipped = flips[x.surface]
                              /\ x.surface # old /\ x.surface # r
    BY <1>1, <2>1 DEF Solo, Active, UpToDate
  <2>3. old \notin bound /\ old # r
    BY <2>1 DEF IInv, BoardsOK, ReplacedIsGone
  <2>4. b = flips[old]
    BY <2>2 DEF Typed
  <2>5. flips' = [flips EXCEPT ![old] = None, ![r] = flips[old]]
    BY <2>1, <2>4
  <2> HIDE DEF b
  <2>6. /\ flips'[r] = flips[old]
        /\ \A s \in bound : s # r => flips'[s] = flips[s]
    BY <1>1, <2>3, <2>5 DEF Typed
  <2>7. UpToDate(t)' /\ Active(t)'
    BY <2>1, <2>2, <2>6 DEF UpToDate, Active
  <2>8. Boards' = Boards /\ Boards \subseteq bound
    BY <2>1 DEF Boards, Messages, Worker!Messages
  <2>9. \A m \in Boards : flips'[m] = turned'
    <3>1. \A m \in Boards : flips[m] = turned \/ m = r
      BY <2>1 DEF Solo, Orienting
    <3> QED
      BY <2>1, <2>2, <2>6, <2>8, <3>1
  <2>10. /\ (\E m \in Messages : Boards = {m})'
         /\ \A m \in Boards' : flips'[m] = turned'
    <3>1. \E m \in Messages : Boards' = {m}
      BY <2>1, <2>8 DEF Solo
    <3> QED
      BY <2>8, <2>9, <3>1 DEF Messages, Worker!Messages
  <2>11. Agrees(r)'
    <3>1. shown'[r] = committed' /\ facing'[r] = flips'[r]
      BY <2>1, <2>2, <2>6
    <3> QED
      BY <2>1, <3>1 DEF Agrees
  <2>12. \A s \in bound : s # r /\ Agrees(s) => Agrees(s)'
    BY <2>1, <2>6 DEF Agrees
  <2>13. \A s \in bound : s # r /\ Owes(t, s) => Owes(t, s)'
    BY <2>1, <2>6 DEF Owes, Orienting
  <2>14. \A s \in bound : s = r => Agrees(s)'
    BY <2>1, <2>2, <2>6 DEF Agrees
  <2>15. (failed \/ \A s \in bound : Agrees(s) \/ (Active(t) /\ Owes(t, s)))'
    BY <2>1, <2>7, <2>12, <2>13, <2>14 DEF Solo
  <2> QED
    BY <2>7, <2>10, <2>15 DEF Solo
<1> QED
  BY <1>2, <1>3

-----------------------------------------------------------------------------
(* The invariant of one handler at a time. *)

\* Every step of the task, while it is alone.
LEMMA SoloStep ==
    ASSUME IInv, IInv', serial, NEW t \in Tasks, OwnStep(t), OnlyActive(t), Solo(t)
    PROVE  Solo(t)'
<1>1. TypeOK /\ TasksOK /\ serial = TRUE
  BY DEF IInv, TypeOK
<1>2. Typed(t) /\ Typed(t)'
  <2>1. Typed(t)
    BY <1>1, TypesOfTask
  <2>2. Typed(t)'
    <3>1. TypeOK' /\ TasksOK' /\ WorkerOK'
      BY WorkerFrame, <1>1 DEF IInv
    <3> QED
      BY <3>1 DEF TypeOK, TasksOK, WorkerOK, Typed
  <2> QED
    BY <2>1, <2>2
<1>3. CASE \/ BindFirst(t) \/ OrientFirst(t)
  BY <1>2, <1>3, SoloFirst
<1>4. CASE List(t) \/ \E s \in Surfaces : Receive(t, s)
  BY <1>2, <1>4, SoloReads
<1>5. CASE Flip(t)
  BY <1>1, <1>2, <1>5, SoloFlips
<1>6. ASSUME NEW spot \in todo[t], Project(t, spot) PROVE Solo(t)'
  BY <1>1, <1>2, <1>6, SoloProjects
<1>7. CASE Edited(t)
  BY <1>1, <1>2, <1>7, SoloEdited
<1>8. CASE Sent(t)
  BY <1>2, <1>8, SoloSent
<1>9. CASE Rebind(t) \/ Reorient(t)
  BY <1>2, <1>9, SoloReplaces
<1>10. CASE CommitUnanswered(t)
  BY <1>1, <1>2, <1>10, SoloLost
  DEF CommitUnanswered, AnswerFails, bindingVars
<1>11. CASE CommitLost(t)
  <2>1. todo[t] = {}
    BY <1>2, <1>11 DEF CommitLost, Typed, TaskOK, WithList
  <2> QED
    BY <1>2, <1>11, <2>1, SoloReturns
    DEF CommitLost, workerVars, bindingVars, historyVars
<1>12. CASE Projected(t)
  BY <1>2, <1>12, SoloReturns
  DEF Projected, workerVars, bindingVars, historyVars
<1>13. CASE Lost(t)
  <2>1. phase[t] # "idle"
    BY <1>1, <1>13, WorkerSteps DEF Lost
  <2>2. at[t] = "working"
    BY <1>2, <2>1 DEF Typed
  <2> QED
    BY <1>1, <1>2, <1>13, <2>2, SoloLost DEF Lost, bindingVars
<1>14. CASE Admit(t)
  <2>1. phase[t] = "admit" /\ shown' = shown
    BY <1>1, <1>14, WorkerSteps DEF Admit
  <2>2. at[t] = "working"
    BY <1>2, <2>1 DEF Typed
  <2> QED
    BY <1>2, <1>14, <2>1, <2>2, SoloWaits
    DEF Admit, bindingVars, taskVars, historyVars
<1>15. CASE Cleaned(t)
  <2>1. phase[t] = "delete" /\ shown' = shown
    BY <1>1, <1>15, WorkerSteps DEF Cleaned
  <2>2. at[t] = "working" /\ at'[t] = "rebind"
    BY <1>2, <1>15, <2>1 DEF Typed, Cleaned, Goto
  <2> QED
    BY <1>2, <1>15, <2>1, <2>2, SoloWaits
    DEF Cleaned, bindingVars, historyVars
<1>16. ASSUME at[t] # "idle" PROVE held[t] = committed
  BY <1>16 DEF Solo, Active, UpToDate
<1>17. ASSUME Advance(t) PROVE held'[t] = committed'
  BY <1>2, <1>17 DEF Advance, Typed
<1>18. CASE Commit(t) \/ PrivateFails(t) \/ EngineCommit(t) \/ EngineFails(t)
  <2>1. /\ at[t] \in {"commit", "join"} \cup BeforeList /\ at'[t] \in BeforeList
        /\ UNCHANGED <<turned, bound, flips>>
    BY <1>2, <1>18 DEF Commit, PrivateFails, EngineCommit, EngineFails, Goto,
       Typed, BeforeList, bindingVars, historyVars
  <2>2. at[t] # "idle"
    BY <2>1 DEF BeforeList
  <2>3. held'[t] = committed'
    BY <1>16, <1>17, <1>18, <2>2
    DEF Commit, PrivateFails, EngineCommit, EngineFails
  <2> QED
    BY <1>2, <2>1, <2>3, SoloOwesAll
<1>19. ASSUME NEW e \in PrivateBoards, SendPrivate(t, e) PROVE Solo(t)'
  <2>1. /\ at[t] \in BeforeList /\ at'[t] \in BeforeList /\ at[t] # "idle"
        /\ UNCHANGED <<turned, bound, flips, held, committed>>
    BY <1>2, <1>19 DEF SendPrivate, Goto, Typed, BeforeList, bindingVars,
       historyVars
  <2> QED
    BY <1>2, <1>16, <2>1, SoloOwesAll
<1>20. CASE BindPrivate(t) \/ OrientPrivate(t)
  <2>1. /\ at[t] \in BeforeList /\ at'[t] \in BeforeList /\ at[t] # "idle"
        /\ UNCHANGED <<turned, held, committed>>
        /\ at[t] \in {"bindPrivate", "orientPrivate"}
    BY <1>2, <1>20 DEF BindPrivate, OrientPrivate, Goto, Typed, BeforeList,
       historyVars
  <2>2. job[t].surface \notin Messages
    BY <1>2, <2>1, Ground DEF Typed, TaskOK
  <2>3. bound' \cap Messages = bound \cap Messages
    BY <1>20, <2>2 DEF BindPrivate, OrientPrivate
  <2>4. \A m \in Messages : flips'[m] = flips[m]
    <3>1. \A m \in Messages : m \in Surfaces /\ m # job[t].surface
      BY <2>2, Ground
    <3> QED
      BY <1>2, <1>20, <3>1 DEF BindPrivate, OrientPrivate, Typed
  <2> QED
    BY <1>2, <1>16, <2>1, <2>3, <2>4, SoloOwesAll
<1> QED
  BY <1>3, <1>4, <1>5, <1>6, <1>7, <1>8, <1>9, <1>10, <1>11, <1>12, <1>13,
     <1>14, <1>15, <1>18, <1>19, <1>20 DEF OwnStep, Step

\* A game starts with the task that binds its first board.
LEMMA SerialInit == Init => SerialInv
<1> SUFFICES ASSUME Init PROVE SerialInv
  OBVIOUS
<1>1. PICK first \in Tasks :
         at = [t \in Tasks |-> IF t = first THEN "bindFirst" ELSE "idle"]
  BY DEF Init
<1>2. OneAtATime /\ OneBoard
  BY <1>1 DEF OneAtATime, Active, OneBoard
<1>3. \A t \in Tasks : Active(t) => UpToDate(t)
  BY <1>1 DEF Init, Active, UpToDate
<1>4. AgreementComes /\ OrientationMoves
  BY DEF Init, AgreementComes, OrientationMoves, Boards
<1> QED
  BY <1>2, <1>3, <1>4 DEF SerialInv

\* While handlers take turns, every step keeps the invariant of that.
LEMMA SerialStep == IInv /\ IInv' /\ SerialInv /\ [Next]_vars => SerialInv'
<1> SUFFICES ASSUME IInv, IInv', SerialInv, [Next]_vars PROVE SerialInv'
  OBVIOUS
<1>1. serial' = serial
  BY GameFrame DEF IInv, Next, OwnStep, fixed, vars, Displace
<1>2. CASE ~serial
  BY <1>1, <1>2 DEF SerialInv
<1>3. ASSUME serial, NEW t \in Tasks, OwnStep(t) PROVE SerialInv'
  <2>1. Frame(t)
    BY <1>3, TaskFrame DEF Frame, IInv
  <2>2. OnlyActive(t) /\ OnlyActive(t)'
    BY <1>3, <2>1, OneSteps
  <2>3. Solo(t)
    BY <1>1, <1>3, <2>2, SoloIsAll
  <2>4. Solo(t)'
    BY <1>3, <2>2, <2>3, SoloStep
  <2> QED
    BY <1>1, <1>3, <2>2, <2>4, SoloIsAll
<1>4. CASE Displace \/ UNCHANGED vars
  <2>1. UNCHANGED <<shown, committed, bound, flips, at, held, job, todo, facing,
                    turned, failed, serial>>
    <3>1. CASE Displace
      BY <3>1 DEF Displace, Worker!Displace, Worker!chatVars, bindingVars,
         taskVars, historyVars, fixed
    <3>2. CASE UNCHANGED vars
      BY <3>2 DEF vars, workerVars, bindingVars, taskVars, historyVars, fixed
    <3> QED
      BY <1>4, <3>1, <3>2
  <2> QED
    BY <2>1 DEF SerialInv, OneAtATime, Active, UpToDate, OneBoard,
       AgreementComes, Agrees, Owes, OrientationMoves, Orienting, Boards,
       Messages, Worker!Messages
<1> QED
  BY <1>2, <1>3, <1>4 DEF Next, OwnStep

\* It holds always.
LEMMA SerialInvariance == Spec => []SerialInv
BY Invariance, SerialInit, SerialStep, PTL DEF Spec

\* When handlers take turns, one board is left after each, and unless a
\* projection was lost every surface shows the committed revision, its own way
\* round (main.rs: project_record, surfaces_for).
THEOREM SurfacesAgree == Spec => []SettledSurfacesAgree
<1>1. IInv /\ SerialInv => SettledSurfacesAgree
  <2> SUFFICES ASSUME IInv, SerialInv, serial, Settled
               PROVE  /\ \E m \in live : Boards = {m}
                      /\ ~failed => \A s \in bound : Agrees(s)
    BY DEF SettledSurfacesAgree, Agrees
  <2>1. \A t \in Tasks : at[t] = "idle"
    BY DEF Settled
  <2>2. PICK m \in Messages : Boards = {m}
    BY <2>1 DEF SerialInv, OneBoard
  <2>3. m \in live
    BY <2>1, <2>2 DEF IInv, BoardsOK, DeletedBoardsAreUnbound, Boards, Replacing
  <2>4. ~failed => \A s \in bound : Agrees(s)
    BY <2>1 DEF SerialInv, AgreementComes, Active
  <2> QED
    BY <2>2, <2>3, <2>4
<1> QED
  BY <1>1, Invariance, SerialInvariance, PTL

\* The orientation of the shared board follows it from message to message
\* (main.rs: replace_surface, flip_surface).
THEOREM OrientationFollows == Spec => []OrientationIsKept
<1>1. IInv /\ SerialInv => OrientationIsKept
  BY DEF SerialInv, OrientationMoves, OrientationIsKept, Settled, Orienting
<1> QED
  BY <1>1, Invariance, SerialInvariance, PTL

-----------------------------------------------------------------------------
(* A game that was shown can be played. *)

Clickable == \E s \in bound : shown[s] = committed

\* Task t has shown the committed revision on a surface it has yet to bind.
Carrying(t) ==
    \/ at[t] = "bindFirst"
    \/ Holding(t)
    \/ at[t] = "bindPrivate" /\ shown[job[t].surface] = committed

PlayInv == serial /\ reached => Clickable \/ \E t \in Tasks : Carrying(t)

\* What makes no surface worse leaves the game playable.
LEMMA PlayKept ==
    ASSUME NEW t \in Tasks, OnlyActive(t), PlayInv, serial, ~Carrying(t),
           reached' = reached, UNCHANGED <<committed, bound>>,
           \A s \in bound : shown'[s] = shown[s]
    PROVE  PlayInv'
<1>1. \A d \in Tasks \ {t} : ~Carrying(d)
  BY DEF OnlyActive, Carrying, Holding
<1>2. reached => Clickable
  BY <1>1 DEF PlayInv
<1> QED
  BY <1>2 DEF PlayInv, Clickable

\* Every step of the task, while it is alone.
LEMMA PlaySteps ==
    ASSUME IInv, SerialInv, PlayInv, serial, NEW t \in Tasks, OwnStep(t),
           OnlyActive(t)
    PROVE  PlayInv'
<1>1. Typed(t) /\ TypeOK /\ serial = TRUE
  BY TypesOfTask DEF IInv, TypeOK
<1>2. at[t] # "idle" => UpToDate(t)
  BY DEF SerialInv, Active
<1>3. phase[t] \in {"admit", "edit", "send"} =>
         at[t] = "working" /\ job[t].receipt = None /\ ~Carrying(t)
  BY <1>1 DEF Typed, TaskOK, Carrying, Holding
<1>4. CASE \/ OrientFirst(t) \/ OrientPrivate(t) \/ CommitLost(t)
           \/ PrivateFails(t) \/ EngineFails(t) \/ List(t) \/ Projected(t)
           \/ Reorient(t) \/ Flip(t) \/ \E s \in Surfaces : Receive(t, s)
  <2>1. /\ at[t] \notin {"bindFirst", "bindPrivate", "working", "rebind"}
        /\ UNCHANGED <<committed, bound, shown, reached>>
    BY <1>4 DEF OrientFirst, OrientPrivate, CommitLost, PrivateFails,
       EngineFails, List, Projected, Reorient, Flip, Receive, workerVars,
       bindingVars, historyVars
  <2>2. ~Carrying(t)
    BY <2>1 DEF Carrying, Holding
  <2> QED
    BY <2>1, <2>2, PlayKept
<1>5. ASSUME NEW spot \in todo[t], Project(t, spot) PROVE PlayInv'
  <2>1. at[t] = "project" /\ UNCHANGED <<committed, bound, shown, reached>>
    BY <1>1, <1>5, WorkerSteps DEF Project, bindingVars, historyVars
  <2>2. ~Carrying(t)
    BY <2>1 DEF Carrying, Holding
  <2> QED
    BY <2>1, <2>2, PlayKept
<1>6. CASE Admit(t) \/ Lost(t)
  <2>1. /\ UNCHANGED <<committed, bound, reached>>
        /\ phase[t] \in {"admit", "edit", "send"}
        /\ Appears(t) \/ UNCHANGED shown
    BY <1>1, <1>6, WorkerSteps DEF Admit, Lost, bindingVars, historyVars
  <2>2. \A s \in bound : shown'[s] = shown[s]
    <3>1. CASE UNCHANGED shown
      BY <3>1
    <3>2. CASE Appears(t)
      <4>1. sent + 1 \notin bound
        BY <3>2, Ground, WorkerTypes
        DEF Appears, IInv, BoardsOK, KnownAreSent, Known, TypeOK, WorkerOK
      <4> QED
        BY <1>1, <3>2, <4>1 DEF Appears, Typed
    <3> QED
      BY <2>1, <3>1, <3>2
  <2> QED
    BY <1>3, <2>1, <2>2, PlayKept
<1>7. CASE Commit(t) \/ CommitUnanswered(t)
  BY <1>7 DEF Commit, CommitUnanswered, Advance, PlayInv
<1>8. CASE EngineCommit(t)
  <2>1. CASE Advance(t)
    BY <2>1 DEF Advance, PlayInv
  <2>2. CASE UNCHANGED <<committed, held, reached>>
    <3>1. at[t] = "engine" /\ UNCHANGED <<bound, shown>>
      BY <1>8 DEF EngineCommit, workerVars, bindingVars
    <3>2. ~Carrying(t)
      BY <3>1 DEF Carrying, Holding
    <3> QED
      BY <2>2, <3>1, <3>2, PlayKept
  <2> QED
    BY <1>8, <2>1, <2>2 DEF EngineCommit
<1>9. CASE BindFirst(t)
  <2>1. bound' = bound \cup {1} /\ UNCHANGED <<committed, shown>>
    BY <1>9 DEF BindFirst, workerVars
  <2>2. shown[1] = committed
    BY <1>9 DEF BindFirst, IInv, Pristine
  <2> QED
    BY <2>1, <2>2 DEF PlayInv, Clickable
<1>10. ASSUME NEW e \in PrivateBoards, SendPrivate(t, e) PROVE PlayInv'
  <2>1. /\ at'[t] = "bindPrivate" /\ job'[t].surface = e
        /\ shown' = [shown EXCEPT ![e] = held[t]] /\ committed' = committed
    BY <1>1, <1>10 DEF SendPrivate, Goto, WorkOn, Typed
  <2>2. shown'[e] = committed'
    BY <1>1, <1>2, <1>10, <2>1, Ground DEF SendPrivate, UpToDate, Typed
  <2> QED
    BY <2>1, <2>2 DEF PlayInv, Carrying
<1>11. CASE BindPrivate(t)
  <2>1. /\ bound' = bound \cup {job[t].surface} /\ at[t] = "bindPrivate"
        /\ UNCHANGED <<committed, shown, reached, serial>>
    BY <1>11 DEF BindPrivate, workerVars, historyVars, fixed
  <2>2. \A d \in Tasks : Carrying(d) => shown[job[t].surface] = committed
    BY <2>1 DEF OnlyActive, Carrying, Holding
  <2> QED
    BY <2>1, <2>2 DEF PlayInv, Clickable
<1>12. CASE Edited(t)
  <2>1. /\ phase[t] = "edit" /\ UNCHANGED <<committed, bound>>
        /\ shown' = [shown EXCEPT ![work[t].surface] = work[t].revision]
    BY <1>1, <1>12, WorkerSteps DEF Edited, bindingVars
  <2>2. /\ at[t] = "working" /\ work[t].surface = job[t].surface
        /\ work[t].revision = held[t]
    BY <1>1, <2>1 DEF Typed, TaskOK
  <2>3. held[t] = committed /\ job[t].surface \in bound
    BY <1>2, <2>2 DEF UpToDate
  <2>4. shown'[job[t].surface] = committed'
    BY <1>1, <2>1, <2>2, <2>3 DEF Typed
  <2> QED
    BY <2>1, <2>3, <2>4 DEF PlayInv, Clickable
<1>13. CASE Sent(t)
  <2>1. /\ phase[t] = "send" /\ sent + 1 \in Messages /\ UNCHANGED at
        /\ job' = [job EXCEPT ![t] = [job[t] EXCEPT !.receipt = sent + 1]]
    BY <1>1, <1>13, WorkerSteps DEF Sent, Appears
  <2>2. at[t] = "working" /\ job[t] \in Job
    BY <1>1, <2>1 DEF Typed, TaskOK, WithJob
  <2>3. job'[t].receipt = sent + 1 /\ job'[t] \in Job
    BY <1>1, <2>1, <2>2 DEF Typed, Job
  <2>4. Holding(t)'
    BY <2>1, <2>2, <2>3, Ground, NoneAssumption DEF Holding
  <2> QED
    BY <2>4 DEF PlayInv, Carrying
<1>14. CASE Cleaned(t)
  <2>1. /\ phase[t] = "delete" /\ UNCHANGED job /\ at'[t] = "rebind"
    BY <1>1, <1>14, WorkerSteps DEF Cleaned, Goto, Typed
  <2>2. job[t] # None /\ job[t].receipt # None
    BY <1>1, <2>1 DEF Typed, TaskOK, WithJob
  <2>3. Holding(t)'
    BY <2>1, <2>2 DEF Holding
  <2> QED
    BY <2>3 DEF PlayInv, Carrying
<1>15. CASE Rebind(t)
  <2>1. /\ at[t] = "rebind" /\ job[t].receipt \in bound'
        /\ UNCHANGED <<committed, shown>>
    BY <1>15 DEF Rebind, workerVars
  <2>2. shown[job[t].receipt] = committed
    BY <1>1, <1>2, <2>1, Ground DEF UpToDate, Typed, TaskOK
  <2> QED
    BY <2>1, <2>2 DEF PlayInv, Clickable
<1> QED
  BY <1>4, <1>5, <1>6, <1>7, <1>8, <1>9, <1>10, <1>11, <1>12, <1>13, <1>14,
     <1>15 DEF OwnStep, Step

\* While handlers take turns, the game stays playable.
LEMMA PlayStep == IInv /\ SerialInv /\ PlayInv /\ [Next]_vars => PlayInv'
<1> SUFFICES ASSUME IInv, SerialInv, PlayInv, [Next]_vars PROVE PlayInv'
  OBVIOUS
<1>1. serial' = serial
  BY GameFrame DEF IInv, Next, OwnStep, fixed, vars, Displace
<1>2. CASE ~serial
  BY <1>1, <1>2 DEF PlayInv
<1>3. ASSUME serial, NEW t \in Tasks, OwnStep(t) PROVE PlayInv'
  <2>1. Frame(t)
    BY <1>3, TaskFrame DEF Frame, IInv
  <2>2. OnlyActive(t)
    BY <1>3, <2>1, OneSteps
  <2> QED
    BY <1>3, <2>2, PlaySteps
<1>4. CASE Displace \/ UNCHANGED vars
  <2>1. UNCHANGED <<shown, committed, bound, at, job, reached, serial>>
    <3>1. CASE Displace
      BY <3>1 DEF Displace, Worker!Displace, Worker!chatVars, bindingVars,
         taskVars, historyVars, fixed
    <3>2. CASE UNCHANGED vars
      BY <3>2 DEF vars, workerVars, bindingVars, taskVars, historyVars, fixed
    <3> QED
      BY <1>4, <3>1, <3>2
  <2> QED
    BY <2>1 DEF PlayInv, Clickable, Carrying, Holding
<1> QED
  BY <1>2, <1>3, <1>4 DEF Next, OwnStep

\* When handlers take turns, a revision that has once been shown stays where a
\* click on it is accepted, whatever requests are lost from then on (main.rs:
\* project_record, project_rendered).
THEOREM ShownGamesAreAlive == Spec => []GameStaysPlayable
<1>1. Init => PlayInv
  BY DEF Init, PlayInv, Carrying
<1>2. IInv /\ PlayInv => GameStaysPlayable
  <2> SUFFICES ASSUME IInv, PlayInv, serial, Settled, reached
               PROVE  \E s \in bound :
                         shown[s] = committed /\ (s \in Messages => s \in live)
    BY DEF GameStaysPlayable
  <2>1. \A t \in Tasks : at[t] = "idle"
    BY DEF Settled
  <2>2. PICK s \in bound : shown[s] = committed
    BY <2>1 DEF PlayInv, Clickable, Carrying, Holding
  <2>3. s \in Messages => s \in live
    BY <2>1 DEF IInv, BoardsOK, DeletedBoardsAreUnbound, Replacing
  <2> QED
    BY <2>2, <2>3
<1> QED
  BY <1>1, <1>2, PlayStep, Invariance, SerialInvariance, PTL DEF Spec
=============================================================================
