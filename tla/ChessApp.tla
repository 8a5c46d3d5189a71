------------------------------ MODULE ChessApp ------------------------------
(***************************************************************************)
(* The surfaces of one game of the chess application: which messages and   *)
(* private boards are bound to it, which way round each one is shown, and  *)
(* how the handlers of clicks bring a committed revision to all of them    *)
(* (crates/teloxide-ui-chess/src/main.rs).                                 *)
(*                                                                         *)
(* The bindings and the orientations are two maps, each behind a mutex of  *)
(* its own.  A handler reads them, sends, and writes them again after the  *)
(* request; any other handler may run in between.  What CallbackFlow shows *)
(* of the store is used here: the state of the game is its revision.       *)
(*                                                                         *)
(* A task is inside a call of the worker while it is at "working".  The    *)
(* worker is what Projections promises, and SurfaceWorker implements: the  *)
(* actions of that module are conjoined with what the application does     *)
(* when a call returns.                                                    *)
(***************************************************************************)
EXTENDS Integers, SequencesExt

CONSTANTS
    Tasks,          \* concurrently running handler tasks
    PrivateBoards,  \* Surface::Ephemeral: boards shown to Black alone
    MaxMessages, MaxRevision,  \* bounds
    None

ASSUME BoundsAssumption ==
    /\ MaxMessages \in Nat \ {0}
    /\ MaxRevision \in Nat
    /\ PrivateBoards \cap Nat = {}
    /\ None \notin Nat

VARIABLES
    phase, work, queue, sent, live, shown,  \* the variables of Projections
    committed,  \* the revision of the game in the store
    bound,      \* ChessApp.views: the surfaces it maps to this game
    flips,      \* ChessApp.surface_flips: whether White is at the top, or None
    mode,       \* ChessState.mode, fixed when the game is started
    serial,     \* external: the dispatcher runs one handler at a time
    at,         \* where each task stands
    held,       \* the revision of the record it holds
    job,        \* the surface it is working on
    todo,       \* the surfaces it has yet to project
    facing,     \* external: which way round each surface is shown
    failed,     \* history: a projection was lost since the last project_record
                \* (recorded when one handler runs at a time)
    turned,     \* history: the shared board was flipped an odd number of times
    reached     \* history: the committed revision has been shown on a surface
                \* whose id the application learned (recorded likewise)

workerVars == <<phase, work, queue, sent, live, shown>>
bindingVars == <<bound, flips>>
fixed == <<mode, serial>>
taskVars == <<at, held, job, todo>>
historyVars == <<failed, turned, reached>>
vars == <<workerVars, committed, bindingVars, fixed, taskVars, facing,
          historyVars>>

Worker ==
    INSTANCE Projections WITH Calls <- Tasks, Editable <- PrivateBoards

Messages == Worker!Messages
Surfaces == Worker!Surfaces
Revision == Worker!Revision

Places == {"idle", "bindFirst", "orientFirst", "flip", "commit", "join",
           "private", "bindPrivate", "orientPrivate", "engine", "list",
           "project", "working", "rebind", "reorient"}

\* An element of what surfaces_for returns.
Spot == [surface : Surfaces, flipped : BOOLEAN]

Job == [surface : Surfaces, flipped : BOOLEAN,
        receipt : Messages \cup {None}]

ASSUME NoneAssumption ==
    None \notin BOOLEAN /\ None \notin Job /\ None \notin Worker!Work

TypeOK ==
    /\ Worker!TypeOK
    /\ committed \in Revision
    /\ bound \subseteq Surfaces
    /\ flips \in [Surfaces -> BOOLEAN \cup {None}]
    /\ mode \in {"stockfish", "twoPlayer"}
    /\ serial \in BOOLEAN
    /\ at \in [Tasks -> Places]
    /\ held \in [Tasks -> Revision]
    /\ job \in [Tasks -> Job \cup {None}]
    /\ todo \in [Tasks -> SUBSET Spot]
    /\ facing \in [Surfaces -> BOOLEAN]
    /\ failed \in BOOLEAN
    /\ turned \in BOOLEAN
    /\ reached \in BOOLEAN
    /\ \A t \in Tasks : at[t] = "working" <=> phase[t] # "idle"

\* start_game_in_chat has sent the first board and stored the game.
Init ==
    /\ Worker!Init
    /\ committed = 0
    /\ bound = {}
    /\ flips = [s \in Surfaces |-> None]
    /\ mode \in {"stockfish", "twoPlayer"}
    /\ serial \in BOOLEAN
    /\ \E first \in Tasks :
          at = [t \in Tasks |-> IF t = first THEN "bindFirst" ELSE "idle"]
    /\ held = [t \in Tasks |-> 0]
    /\ job = [t \in Tasks |-> None]
    /\ todo = [t \in Tasks |-> {}]
    /\ facing = [s \in Surfaces |-> FALSE]
    /\ failed = FALSE
    /\ turned = FALSE
    /\ reached = TRUE

Goto(t, place) == at' = [at EXCEPT ![t] = place]

WorkOn(t, s, flipped) ==
    job' = [job EXCEPT ![t] = [surface |-> s, flipped |-> flipped,
                               receipt |-> None]]

\* The handler returns: its record, its job and its list are dropped.
Finish(t) ==
    /\ Goto(t, "idle")
    /\ held' = [held EXCEPT ![t] = 0]
    /\ job' = [job EXCEPT ![t] = None]
    /\ todo' = [todo EXCEPT ![t] = {}]

\* The record that task t holds is shown.
Shows(t) == reached' = (reached \/ (serial /\ held[t] = committed))

-----------------------------------------------------------------------------
(* register_surface: the binding and then the orientation. *)

BindFirst(t) ==
    /\ at[t] = "bindFirst"
    /\ bound' = bound \cup {1}
    /\ Goto(t, "orientFirst")
    /\ UNCHANGED <<workerVars, committed, flips, fixed, held, job, todo,
                   facing, historyVars>>

OrientFirst(t) ==
    /\ at[t] = "orientFirst"
    /\ flips' = [flips EXCEPT ![1] = FALSE]
    /\ Finish(t)
    /\ UNCHANGED <<workerVars, committed, bound, fixed, facing, historyVars>>

BindPrivate(t) ==
    /\ at[t] = "bindPrivate"
    /\ bound' = bound \cup {job[t].surface}
    /\ Goto(t, "orientPrivate")
    /\ UNCHANGED <<workerVars, committed, flips, fixed, held, job, todo,
                   facing, historyVars>>

OrientPrivate(t) ==
    /\ at[t] = "orientPrivate"
    /\ flips' = [flips EXCEPT ![job[t].surface] = TRUE]
    /\ Goto(t, "list")
    /\ UNCHANGED <<workerVars, committed, bound, fixed, held, job, todo,
                   facing, historyVars>>

-----------------------------------------------------------------------------
(* handle_callback.  Answering the callback reads and writes nothing of the  *)
(* application: it is part of the step before, and may fail there.          *)

\* binding_for, load, resolve and the transition.  The token of a click names
\* the revision its surface showed, and the buttons are of the Reject policy:
\* for any other revision than the one that is loaded the click is refused.
Receive(t, s) ==
    /\ at[t] = "idle"
    /\ serial => \A d \in Tasks : at[d] = "idle"
    /\ s \in bound
    /\ shown[s] = committed
    /\ held' = [held EXCEPT ![t] = committed]
    /\ WorkOn(t, s, FALSE)
    /\ \/ Goto(t, "flip")
       \/ Goto(t, "commit")
       \/ mode = "twoPlayer" /\ Goto(t, "join")
    /\ UNCHANGED <<workerVars, committed, bindingVars, fixed, todo, facing,
                   historyVars>>

\* The callback could not be answered: the handler returns with nothing
\* projected.
AnswerFails(t) == Finish(t) /\ failed' = serial

\* flip_surface: the orientation is the surface's own, no revision is spent.
\* It is projected with the record that was loaded before.
Flip(t) ==
    LET s == job[t].surface
    IN  /\ at[t] = "flip"
        /\ IF flips[s] = None
           THEN Finish(t) /\ UNCHANGED <<flips, historyVars>>
           ELSE /\ flips' = [flips EXCEPT ![s] = ~@]
                /\ turned' = (turned # (s \in Messages))
                /\ \/ /\ todo' = [todo EXCEPT ![t] =
                                     {[surface |-> s, flipped |-> ~flips[s]]}]
                      /\ Goto(t, "project")
                      /\ UNCHANGED <<held, job, failed>>
                   \/ AnswerFails(t)
                /\ UNCHANGED reached
        /\ UNCHANGED <<workerVars, committed, bound, fixed, facing>>

\* compare_and_set fails: another handler was first, or the counter is at its
\* end.
Conflicts(t) == held[t] # committed \/ committed = MaxRevision

\* compare_and_set.
Advance(t) ==
    /\ ~Conflicts(t)
    /\ committed' = committed + 1
    /\ held' = [held EXCEPT ![t] = committed + 1]
    /\ reached' = FALSE

\* should_engine_move is decided by the position.
Commit(t) ==
    /\ at[t] \in {"commit", "join"}
    /\ Advance(t)
    /\ \/ at[t] = "commit" /\ Goto(t, "list")
       \/ at[t] = "commit" /\ mode = "stockfish" /\ Goto(t, "engine")
       \/ at[t] = "join" /\ Goto(t, "private")
    /\ UNCHANGED <<workerVars, bindingVars, fixed, job, todo, facing, failed,
                   turned>>

\* It is committed, but the callback cannot be answered.
CommitUnanswered(t) ==
    /\ at[t] \in {"commit", "join"}
    /\ ~Conflicts(t)
    /\ committed' = committed + 1
    /\ reached' = FALSE
    /\ AnswerFails(t)
    /\ UNCHANGED <<workerVars, bindingVars, fixed, facing, turned>>

\* The loser leaves the projection to the winner.
CommitLost(t) ==
    /\ at[t] \in {"commit", "join"}
    /\ Conflicts(t)
    /\ Finish(t)
    /\ UNCHANGED <<workerVars, committed, bindingVars, fixed, facing,
                   historyVars>>

\* send_black_ephemeral: the new board is shown before it is bound.
SendPrivate(t, e) ==
    /\ at[t] = "private"
    /\ e \notin bound
    /\ \A d \in Tasks : at[d] = "bindPrivate" => job[d].surface # e
    /\ shown' = [shown EXCEPT ![e] = held[t]]
    /\ facing' = [facing EXCEPT ![e] = TRUE]
    /\ Shows(t)
    /\ WorkOn(t, e, TRUE)
    /\ Goto(t, "bindPrivate")
    /\ UNCHANGED <<phase, work, queue, sent, live, committed, bindingVars,
                   mode, serial, held, todo, failed, turned>>

\* It could not be sent; the handler goes on.
PrivateFails(t) ==
    /\ at[t] = "private"
    /\ Goto(t, "list")
    /\ UNCHANGED <<workerVars, committed, bindingVars, fixed, held, job, todo,
                   facing, historyVars>>

\* The engine's reply, committed unless the game has moved on; if it has, the
\* handler keeps the record it holds.
EngineCommit(t) ==
    /\ at[t] = "engine"
    /\ \/ Advance(t)
       \/ Conflicts(t) /\ UNCHANGED <<committed, held, reached>>
    /\ Goto(t, "list")
    /\ UNCHANGED <<workerVars, bindingVars, fixed, job, todo, facing, failed,
                   turned>>

EngineFails(t) ==
    /\ at[t] = "engine"
    /\ Goto(t, "list")
    /\ UNCHANGED <<workerVars, committed, bindingVars, fixed, held, job, todo,
                   facing, historyVars>>

-----------------------------------------------------------------------------
(* project_record and project_rendered. *)

\* Mutated form of List: only the surface of the click is projected.
ListClicked(t) ==
    LET s == job[t].surface
    IN  /\ at[t] = "list"
        /\ todo' = [todo EXCEPT ![t] =
                       {[surface |-> s, flipped |-> flips[s] = TRUE]}]
        /\ failed' = FALSE
        /\ Goto(t, "project")
        /\ UNCHANGED <<workerVars, committed, bindingVars, fixed, held, job,
                       facing, turned, reached>>

\* surfaces_for, with both locks held.
List(t) ==
    /\ at[t] = "list"
    /\ todo' = [todo EXCEPT ![t] =
                   {[surface |-> s, flipped |-> flips[s] = TRUE] :
                       s \in bound}]
    /\ failed' = FALSE
    /\ Goto(t, "project")
    /\ UNCHANGED <<workerVars, committed, bindingVars, fixed, held, job,
                   facing, turned, reached>>

\* The next surface, in the order of the map: its projection is rendered from
\* the record the task holds and handed to the worker.
Project(t, spot) ==
    /\ at[t] = "project"
    /\ spot \in todo[t]
    /\ Worker!Enter(t, spot.surface, held[t])
    /\ WorkOn(t, spot.surface, spot.flipped)
    /\ todo' = [todo EXCEPT ![t] = @ \ {spot}]
    /\ Goto(t, "working")
    /\ UNCHANGED <<committed, bindingVars, fixed, held, facing, historyVars>>

Projected(t) ==
    /\ at[t] = "project"
    /\ todo[t] = {}
    /\ Finish(t)
    /\ UNCHANGED <<workerVars, committed, bindingVars, fixed, facing,
                   historyVars>>

Admit(t) ==
    /\ Worker!Admit(t)
    /\ UNCHANGED <<committed, bindingVars, fixed, taskVars, facing,
                   historyVars>>

\* A projection that waits is displaced.
Displace ==
    /\ \E s \in PrivateBoards :
          \E i \in 1 .. Len(queue[s]) : Worker!Displace(s, i)
    /\ UNCHANGED <<committed, bindingVars, fixed, taskVars, facing,
                   historyVars>>

\* The edit shows.  project returns Ok, or an error all the same.
Edited(t) ==
    /\ Worker!Apply(t)
    /\ facing' = [facing EXCEPT ![job[t].surface] = job[t].flipped]
    /\ \/ Goto(t, "project") /\ UNCHANGED <<held, job, todo, failed>>
       \/ Finish(t) /\ failed' = serial
    /\ Shows(t)
    /\ UNCHANGED <<committed, bindingVars, fixed, turned>>

\* Mutated form of Lost: an error of the send is taken for one of the cleanup.
LostRebinds(t) ==
    /\ Worker!FailEdit(t) \/ Worker!FailSend(t)
    /\ Goto(t, "rebind")
    /\ UNCHANGED <<committed, bindingVars, fixed, held, job, todo, facing,
                   historyVars>>

\* project, or the send of replace_message, returns an error: so does
\* project_record, and the surfaces left on the list are not projected.
Lost(t) ==
    /\ Worker!FailEdit(t) \/ Worker!FailSend(t)
    /\ Finish(t)
    /\ failed' = serial
    /\ UNCHANGED <<committed, bindingVars, fixed, facing, turned, reached>>

Sent(t) ==
    /\ Worker!Send(t)
    /\ facing' = [facing EXCEPT ![sent + 1] = job[t].flipped]
    /\ job' = [job EXCEPT ![t].receipt = sent + 1]
    /\ Shows(t)
    /\ UNCHANGED <<committed, bindingVars, fixed, at, held, todo, failed, turned>>

\* Mutated form of Cleaned: the Delete error is passed on like the others.
CleanedOrLost(t) ==
    /\ Worker!Cleanup(t)
    /\ \/ Goto(t, "rebind") /\ UNCHANGED <<held, job, todo, failed>>
       \/ Finish(t) /\ failed' = serial
    /\ UNCHANGED <<committed, bindingVars, fixed, facing, turned, reached>>

\* replace_message returns its receipt, inside Ok or inside the Delete error.
Cleaned(t) ==
    /\ Worker!Cleanup(t)
    /\ Goto(t, "rebind")
    /\ UNCHANGED <<committed, bindingVars, fixed, held, job, todo, facing,
                   historyVars>>

\* Mutated form of Rebind: the old surface stays bound.
RebindKeepsOld(t) ==
    /\ at[t] = "rebind"
    /\ bound' = bound \cup {job[t].receipt}
    /\ Goto(t, "reorient")
    /\ UNCHANGED <<workerVars, committed, flips, fixed, held, job, todo,
                   facing, historyVars>>

\* replace_surface, under the lock of the bindings.
Rebind(t) ==
    /\ at[t] = "rebind"
    /\ bound' = (bound \ {job[t].surface}) \cup {job[t].receipt}
    /\ Goto(t, "reorient")
    /\ UNCHANGED <<workerVars, committed, flips, fixed, held, job, todo,
                   facing, historyVars>>

\* Mutated forms of Reorient: the orientation is moved only if there is one,
\* or the new board starts with White at the bottom.
ReorientIfKnown(t) ==
    LET old == job[t].surface
    IN  /\ at[t] = "reorient"
        /\ flips' = [flips EXCEPT ![old] = None,
                                  ![job[t].receipt] = flips[old]]
        /\ Goto(t, "project")
        /\ UNCHANGED <<workerVars, committed, bound, fixed, held, job, todo,
                       facing, historyVars>>

ReorientAnew(t) ==
    /\ at[t] = "reorient"
    /\ flips' = [flips EXCEPT ![job[t].surface] = None,
                              ![job[t].receipt] = FALSE]
    /\ Goto(t, "project")
    /\ UNCHANGED <<workerVars, committed, bound, fixed, held, job, todo,
                   facing, historyVars>>

\* replace_surface, under the lock of the orientations.
Reorient(t) ==
    LET old == job[t].surface
    IN  /\ at[t] = "reorient"
        /\ flips' = [flips EXCEPT ![old] = None,
                                  ![job[t].receipt] = flips[old] = TRUE]
        /\ Goto(t, "project")
        /\ UNCHANGED <<workerVars, committed, bound, fixed, held, job, todo,
                       facing, historyVars>>

-----------------------------------------------------------------------------

Step(t) ==
    \/ BindFirst(t) \/ OrientFirst(t)
    \/ Flip(t) \/ Commit(t) \/ CommitUnanswered(t) \/ CommitLost(t)
    \/ \E e \in PrivateBoards : SendPrivate(t, e)
    \/ PrivateFails(t) \/ BindPrivate(t) \/ OrientPrivate(t)
    \/ EngineCommit(t) \/ EngineFails(t)
    \/ List(t) \/ (\E spot \in todo[t] : Project(t, spot)) \/ Projected(t)
    \/ Admit(t) \/ Edited(t) \/ Lost(t) \/ Sent(t) \/ Cleaned(t)
    \/ Rebind(t) \/ Reorient(t)

Next ==
    \/ \E t \in Tasks : Step(t)
    \/ \E t \in Tasks, s \in Surfaces : Receive(t, s)
    \/ Displace

Spec == Init /\ [][Next]_vars

-----------------------------------------------------------------------------
(* Properties. *)

Settled == \A t \in Tasks : at[t] = "idle"

\* Task t has sent the board that replaces m and has not bound it yet.
Replacing(t, m) ==
    /\ job[t] # None
    /\ job[t].surface = m
    /\ job[t].receipt # None
    /\ at[t] \in {"working", "rebind"}

\* A game is never left without a board: however requests fail, are superseded
\* or overtake each other, a message of the chat is bound to it, or a task is
\* about to bind one (main.rs: project_rendered rebinds also when the cleanup
\* failed).  Whether that board's buttons are of the committed revision is
\* GameStaysPlayable's matter.
GameStaysReachable ==
    \/ \E t \in Tasks : at[t] = "bindFirst"
    \/ bound \cap live # {}
    \/ \E t \in Tasks, m \in Messages :
          Replacing(t, m) /\ job[t].receipt \in live

\* A board that was deleted from the chat does not stay bound (and projected
\* for ever): only the task that deleted it may have it so for a moment.
DeletedBoardsAreUnbound ==
    \A m \in bound \cap Messages :
       m \in live \/ \E t \in Tasks : Replacing(t, m)

\* Every board can be flipped once the handlers have returned, in spite of the
\* two maps that are written one after the other.
EveryBoardFlips ==
    Settled => \A s \in bound : flips[s] # None

\* The messages of the game in the chat that its players can use.
Boards == bound \cap Messages

\* When one handler runs at a time, one board is left after each, and unless a
\* projection was lost every surface of the game shows the committed revision,
\* its own way round (docs/CHESS_REFERENCE.md: "Later state revisions are
\* projected to the shared message and every registered ephemeral player
\* surface").
SettledSurfacesAgree ==
    serial /\ Settled =>
       /\ \E m \in live : Boards = {m}
       /\ ~failed => \A s \in bound :
                        shown[s] = committed /\ facing[s] = flips[s]

\* When one handler runs at a time, a click is accepted on some board that its
\* players can see, whatever was lost since: once the committed revision has
\* been shown on one surface, there always is one that is bound, in the chat and
\* shows it (main.rs: project_record goes from surface to surface and stops at
\* the first error).  The game can only die, all its buttons stale for good,
\* with a revision that was never shown: its callback could not be answered
\* (main.rs:635), or all of its projections were lost.
GameStaysPlayable ==
    serial /\ Settled /\ reached =>
       \E s \in bound :
          shown[s] = committed /\ (s \in Messages => s \in live)

\* The orientation of the shared board follows it from message to message: it
\* is the one its players chose, whatever was replaced, lost or flipped on
\* other surfaces (CHANGELOG.md: "each surface keeps its own board
\* orientation").
OrientationIsKept ==
    serial /\ Settled => \A m \in Boards : flips[m] = turned
=============================================================================
