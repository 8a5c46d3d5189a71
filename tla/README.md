# Verification of teloxide-ui

TLA+ modules, TLC configurations and TLAPS proofs for the `teloxide-ui` library
(`src/`) and the chess bot built on it (`crates/teloxide-ui-chess`).

`tlc -workers 2 -config X.cfg M` runs a check, `tlapm XProofs.tla` checks the
proofs of a module.

## The system

A Telegram bot shows *views*. A view has an id, a revision and a state, and is
projected onto one or more *surfaces* (a message, an inline message, an
ephemeral message of one user). The buttons of a projection carry opaque tokens;
each token names a capability in a registry. A click comes back as a callback
with a token, a user and a surface.

| Component | State | Operations | What makes it correct |
|---|---|---|---|
| Identifiers, revisions (`ids.rs`) | a counter | `ViewId::fresh`, `Revision::checked_next` | ids are not reused, revisions do not wrap |
| Action registry (`action.rs`) | token -> record, behind a mutex | register, resolve, remove, prune | a token means one thing for its whole life; only time or the application ends it |
| View store (`store.rs`) | view -> record, behind a mutex | insert, load, compare-and-set, remove | no lost update; a revision names one state |
| Renderer (`render.rs`, `node.rs`) | none | validate a tree, register a capability per enabled button | all or nothing registration; every enabled button gets its own token |
| Surface worker (`surface.rs`) | surface -> scheduler lane | project, replace a message | one request per surface at a time, latest wins, the newest board survives |
| Chess rules (`main.rs` from line 1000) | `ChessState` | transitions of the buttons, engine reply | seats, record, selection and authority are consistent |
| Chess application (`main.rs` to line 1000) | bindings of surfaces, board orientations | callbacks, opening a game, projections | a click has one effect, of which every surface learns |
| Component, Effect (`component.rs`, `effect.rs`) | none | contracts nothing executes | - |
| Engine process, Telegram, outbound scheduler | external | | assumptions, see below |

How they interact: a callback handler (a tokio task, several run at a time)
finds the view a surface is bound to, loads its record from the store, resolves
the token in the registry against the revision it loaded, computes the next
state, commits it with compare-and-set, answers the callback, asks the engine
for a reply if one is due and commits that too, and projects the record it
holds on every surface of the view. The projection renders (which registers new
capabilities) and goes through the surface's lane of the outbound scheduler. No
lock is held over any two of these steps.

What is hard about it:

* everything between `load` and `compare_and_set` works on a snapshot, and so
  does everything after the commit;
* a token is checked at one moment and used at another;
* a render and a commit are far apart, so projections may reach a surface in
  another order than their revisions were committed;
* sends may fail before or after they took effect, a pending request may be
  displaced, a lane is shared by requests that belong together;
* several maps are updated under separate locks;
* the game is a protocol of many small legal steps, most of them with side
  effects (a selection claims a seat, an undo reopens a game).

`PROJECT.json` lists these hazards one by one, at their lines.

## Modules

| Module | Models | Lines of code |
|---|---|---|
| `UiTypes` | revisions, actor and staleness policies, capability records, expiry | `ids.rs`, `action.rs` |
| `ActionRegistry` | the registry | `action.rs:180-333` |
| `UiStore` | the store and the id allocator | `store.rs`, `ids.rs` |
| `CallbackFlow` | concurrent handlers over registry and store | `main.rs:348-386, 544-688`, `render.rs:259-287` |
| `CapabilityLog` | the abstract specification of the callback path | |
| `SurfaceWorker` | the surface worker on scheduler lanes and a chat | `surface.rs` |
| `Projections` | the abstract specification of the surface worker | |
| `ChessApp` | the surfaces of one game under concurrent handlers, on top of `Projections` | `main.rs:348-542, 544-735` |
| `UiTrees` | node trees, their validation and compilation | `node.rs`, `render.rs:159-257, 289-375` |
| `RichRenderer` | the registrations of concurrent renders, on top of `UiTrees` | `render.rs:112-157, 259-287` |
| `ChessGame` | the game state, its transitions, what its projection offers and marks | `main.rs:597-616, 847-853, 907-989, 1009-1310` |
| `ActionRegistryProofs`, `CallbackFlowProofs`, `SurfaceWorkerProofs`, `ChessAppProofs`, `ChessGameProofs`, `RichRendererProofs` | theorems and proofs | |
| `SequenceLemmas` | lemmas about removing from, appending to and flattening sequences, and about their order | |
| `Recursion` | the theorem on recursive functions and the induction on a rank that the proofs about trees instantiate | |
| `MC*` | constants for TLC | |

Definitions named "Mutated form of ..." are the same operation with a plausible
bug. No specification uses them; they are there to confirm that each property
notices the bug it is meant for.

### State and actions against the code

`ActionRegistry`. `entries` is the map behind the mutex; each public method
takes the lock once and is one action. The parameter `clock` is the reading of
`Instant::now()` that `register_with_ttl` and `prune_expired` take before the
lock: any instant up to the present. `resolve` reads the clock under the lock
and uses `now`. `minted` is a history variable. That a generated token (a v4
UUID) does not repeat one that is already gone is assumed of the generator; that
it does not repeat a live one is the loop's.

`UiStore` has operators only: one per method, each atomic because of the mutex.
`allocated` are the ids that `ViewId::fresh` has handed out.

`CallbackFlow` composes the two. A task's place `pc` is one of the awaits or
shared accesses of `handle_callback` or `start_game_in_chat`:

    open -> (InsertView | OpenFails)                     start_game_in_chat
    load -> resolve -> commit -> ack -> engine -> render handle_callback

with an early return at every step that has one. `req` is the callback (token,
user, and the view its surface is bound to), `snap` the `ViewRecord` the task
holds. The application's state is the list of actions that led to it, so two
states are equal exactly when the same clicks made them. `journal` is a history
variable: what has been committed, per view. A transition may accept or refuse;
a flip goes to `render` with the record that was loaded. `RenderButton` is one
`register_with_ttl` of a projection; other tasks run between two of them. A
callback may name any token and any opened view: nothing stops a user from
sending a token with a surface it does not belong to.

The model also lets the application remove tokens, prune, and remove views at
any time, as the library allows, though the chess bot does none of these.
`ClicksSpendNothing` therefore excuses a token that is removed, but no step that
is a prune: an unexpired token that a prune took would violate it.

`SurfaceWorker`. `Enter` is the lookup of the lane, `Admit*` the enqueueing (in
`replace_message` two separate enqueueings with nothing between but other
tasks), and the rest is one action per outcome of an await. `pending` and
`granted` are the scheduler's; `sent`, `live` and `shown` are the chat's.
External assumptions: a serial lane runs one job at a time in order of
admission; a latest-wins job displaces the pending latest-wins jobs of its key,
not a granted one and not a plain one; a dropped acquire or permit leaves the
lane; the scheduler may turn any pending job away; a request may fail after it
took effect. `Commit` stands for the view advancing. `MayEnter` is an assumption
about the callers, which the worker does not test: with `InOrder` a caller brings
the newest committed revision and enters its job before the next caller looks up
a lane (more than "in the order of their commits"); without it callers come with
any committed revision, in any order. Which of the two an application does is its
own affair: under teloxide's default dispatcher the handlers of one chat take
turns. The end of a replacement is two steps, because the delete's permit is
given back in an await: `DeleteEnds` frees the lane, and other jobs and callers
may come before `Transfer` moves it to the new message.

`Projections` says what is left of the worker when lanes, permits and the
scheduler are taken away: a queue of edits per editable surface, of which only
the first may take effect and any may be dropped; a replacement that sends
first, then cleans up, and reports the new message in either case. It says
nothing of the order of two replacements of one message. `SurfaceWorker`
implements it: a call's phase and work are read off `pc` and `call`, the queue
of a surface is the running job of its lane followed by the pending ones, the
chat is the same. Entering, admitting, taking effect and failing map to the
action of the same meaning; creating and moving lanes, granting, and admitting a
delete are stutters. To its callers a replacement is over when its delete has
ended; the `Transfer` after it makes no more requests.

`ChessApp` is the application around the worker. `bound` and `flips` are the
maps `views` and `surface_flips`; each has its own mutex, so `register_surface`
and `replace_surface` are two steps each. A task's place `at` follows
`handle_callback`:

    bindFirst -> orientFirst                              start_game_in_chat
    receive -> flip ------------------------> project     (one surface)
            -> commit [-> engine] -> list --> project     (every surface)
            -> join -> private -> bindPrivate -> orientPrivate -> list
    project -> working -> [rebind -> reorient ->] project -> ... -> idle

While a task is at `working` it is a call of `Projections`, and the steps of
that module are conjoined with what the application does when the call returns:
rebind after a replacement and also after its failed cleanup, give up the rest
of the list after any other error. A commit and the answer to the callback are
one step with two outcomes, because the answer reads and writes nothing that
other tasks see; if the answer fails the committed revision is not projected.
`held` is the revision of the record a task holds; what `CallbackFlow` establishes
(a revision names one state, a stale click is refused) is used here instead of
modelled again. `serial` is the dispatcher:
one handler at a time, or freely interleaved; both are checked. `facing` is what
the chat shows. `failed` (a projection was lost), `turned` (how often the shared
board was flipped) and `reached` (the committed revision has been shown) are
history variables; `failed` and `reached` are recorded when one handler runs at
a time, where the properties that read them apply.

How a game could end up without a button that works is divided between two
properties. `GameStaysReachable`: under any dispatcher a board of it is in the
chat and bound, or about to be. `GameStaysPlayable`: under a serial one, a
revision that has once been shown can be clicked somewhere, whatever is lost
afterwards; for this it matters that a board is bound as soon as it is sent,
also when the cleanup fails. What remains is a revision that is committed and
never shown, because its callback could not be answered (`main.rs:635`) or every
one of its projections was lost. Then all buttons are stale and no click of this
game is accepted any more. The code does not prevent that, so no property claims
it; it is one of the states in which the run stops.

`UiTrees`. A tree is a sequence of nodes of any depth, built with the builders
of `node.rs` (a header cell is a wrapper that can be nested, and `disabled`
reaches through it). `NodesError` is the validation, `Blocks` the message that
the walk builds, `Buttons` the buttons in the order it meets them. They are
recursive functions on the cells and the lists of nodes there are (`TableCells`,
`NodeLists`), sets that contain the cells and lists inside their elements; each
is written as one level of the recursion (`NodesErrorStep`, `BlocksStep`, ...),
an operator that is given the function. That a tree is finite, which Rust gives
for nothing, is an assumption here: a part is less deep than the whole
(`CellsAssumption`, `ListsAssumption`).

`RichRenderer`. `Render` is `validate_nodes` and the start of the walk; then one
step per button, because each `register_with_ttl` takes the registry's lock anew
and another render may come in between. `Documents` are the trees that are
rendered, any of `NodeLists`; `MCRichRenderer` names a finite set of both.

`ChessGame`. One action per arm of `transition_for_actor`, including the labels
that `handle_callback` sets afterwards, and the engine's reply. A transition is
atomic here because `CallbackFlow` shows that it is committed only on the state
it was computed from. The buttons of the chess bot are rendered with
`StalePolicy::Reject`, so a committed click is the click of a button that the
current state offers: the guards contain what `view` disables (`Offered`) and
whom `actor_policy` admits. `thinking` says that a task waits for the engine's
reply to the current revision; nobody clicks then (`Click`), because the buttons
of that revision are registered only when the reply is in or has failed.
`Offered` are the controls that `view` leaves enabled, and `Visual` the mark of
a square; the transitions decide on their own whether they accept. What they
decide by has names (`CanUndo`, `CanMove`, ...), which the actions use as their
guards and the two properties about the board (`OfferedIsAccepted`,
`MarksAreMoves`) compare with what it offers and marks. The chess rules are
parameters (positions, legal moves), because they are another crate's. So is the
way that crate writes a move: `UciTarget` is what `parse_uci_move` makes of two
squares. A castling is king takes own rook there, and is written with either of
two targets, the square the king goes to or the rook's; `legal_move_for` finds
both of them legal. The second is marked on the board and cannot be clicked as a
move, since the arm that selects one's own piece comes first. `players` is a
history variable.

## What is checked

| Run | Distinct states | Shows |
|---|---|---|
| `registry` | 37 thousand | the life of a capability, with expiries of 0, 1 and no ticks, and late clock readings |
| `callback_capabilities` | 528 thousand | two handlers share one button over two views, two users and two policies: each commit is covered, a Reject button works once, no callback and no prune takes a capability before its expiry |
| `callback_race` | 299 thousand | three handlers, two buttons, one view: no lost update, refinement of `CapabilityLog`, the inductive invariant of the proofs (of which `RevisionCountsCommits` is a part) |
| `callback_progress` | 7 thousand | a handler about to commit on the current revision means progress |
| `surface_edits` | 342 thousand | three renders of an editable surface: serial, latest wins, never backwards |
| `surface_replacements` | 497 thousand | replacements of a message and of a message already replaced, beside edits, at two revisions: the newest board lives, a lane keeps its one surface, every call returns, refinement of `Projections` |
| `chess_game` | 828 | all clicks of three users and all engine replies on a small game with a castling; the projection offers and marks what the transitions accept; an undo against the engine ends with White to move, or the engine asked |
| `chess_app` | 3.9 million | two handlers and the surfaces of one game, under both kinds of dispatcher: the game keeps a board in the chat, a deleted one does not stay bound, every board flips; under a serial one the settled surfaces agree with the store, keep their orientation, and a revision once shown can be clicked |
| `rendering` | 104 thousand | two renders, every kind of node and fault: all or nothing registration, own tokens, validation agrees with the message |

Bounds and why they are enough:

* `MaxRevision` 2: a handler can be overtaken twice, or by a click and its engine
  reply, and the counter reaches its end, where commits must fail.
* Two tokens: one button pressed twice, and two buttons of one revision. Two
  views: a token sent with the wrong surface. Two users: one admitted, one not.
  Three tasks: a winner, a loser, and one that loads in between.
* `MaxTime` 1 or 2 with lifetimes 0, 1 and none: before, at and after an expiry.
* Three calls on a lane: one granted, one pending, one that displaces it. Three
  messages: a board, its replacement, and the board of a late caller that still
  names the first one. The sends are bounded by `MaxMessages`, the lanes by
  `MaxLanes`.
* `chess_app`: two handlers, three messages (a board, its replacement, and the
  replacement of that one, so that an orientation crosses two replacements), one
  private board, two commits (a click and the engine's reply, or two clicks). The
  first board is bound by one of the handlers while the other one may already act
  on it.
* `rendering`: the documents are one node of every kind, sound and with every
  fault, two sound ones, and a faulty one after a row of buttons; header cells
  wrapped once, twice and unwrapped again, disabled before and after wrapping.
  Four tokens are as many as two renders with two buttons each take. Two
  contexts tell the renders apart.
* Three users: the creator, an opponent, a bystander. Six moves of a game reach
  two full moves against the engine, a mate by White and two draws; the graph of
  positions has no cycles, so undo and repetition are the only way back.

Symmetry is used for tokens, tasks, users, views and calls where the constants
do not tell them apart, and only in runs without liveness. Deadlock is not
checked in the runs whose counters reach their bounds (`CHECK_DEADLOCK FALSE`):
the bounded system stops there; in `rendering` it stops when both renders have
returned; in `chess_app` also when the game is dead, as described above, which
the code allows. The registry and the chess game never stop.

Fairness. `CallbackFlow!FairSpec` assumes weak fairness of each task's own
steps: tokio keeps polling a task that can run, and every request ends with an
answer or an error, because HTTP requests time out. It does not assume that
clicks arrive. `SurfaceWorker!FairSpec` assumes the same of the calls, and that
a free lane with pending jobs grants the next one. No strong fairness is needed.

### Where the code and its documents disagree

Each of these runs is expected to find a violation.

* `surface_stale` (`MutationsAreSerial`): after a replacement the lane belongs to
  the new message. A call that still names the old one gets another lane, next to
  calls that already wait in the first. `NewestBoardLives` still holds.
* `callback_ack` (`AckPrecedesResolution`): the callback is answered after the
  commit, not before the resolution as `docs/ARCHITECTURE.md:342` has it, and if
  the answer fails the handler ends: no engine, no projection.
* `chess_marks` (`MarksAreDestinations`): the own rook of a king that may castle
  is marked as a capture; a click on it selects the rook
  (`docs/CHESS_REFERENCE.md:151-154`).

More that a reader of the models will notice, and that no run is spent on:

* `SurfaceWorker` never compares revisions. That a surface does not go back
  (`NeverBackwards`, `docs/ARCHITECTURE.md:259`, which states it without a
  condition) is checked for callers that come `InOrder`, and does not hold for
  others: under a free dispatcher a handler that is late may put an older
  projection over a newer one, until the next one.
* New Game in a two-player game without an owner frees White but keeps the old
  player's name (against `docs/CHESS_REFERENCE.md:90-94`); `SeatsAreLabelled`
  says only that a seat that is held has the right one.
* An engine that fails at an Undo leaves Black to move in what is shown, against
  `docs/CHESS_REFERENCE.md:77-79`. `UndoReturnsToWhite` says that it is the only
  way: after a mate by White, or after an engine that had failed, Undo removes an
  uneven share of the moves, but asks the engine before anything is shown.
* An unanswered callback or projections that are all lost leave a game that
  nobody can click (see `ChessApp` above).

## What is proved

The theorems hold for every value of the constants that satisfies the named
assumptions of the modules. These say that `None` is nobody's value
(`NoneAssumption`, in several modules, and `UsersAssumption`), that bounds are
natural numbers (`BoundsAssumption`, `RevisionAssumption`, `TimeAssumption`),
that lifetimes and policies are what the code has (`TTLAssumption`,
`PoliciesAssumption`), that sides alternate and the board is one of chess
positions (`PlayAssumption`, `BoardAssumption`), that every legal move can be
written with a target that is not one's own (`WritingAssumption`: a castling has
the square of the king), that trees are finite (`CellsAssumption`,
`ListsAssumption`) and what is rendered is a tree (`DocumentsAssumption`). TLC
evaluates each of them on the runs. The bounds remain in the theorems as
constants: a proof covers any number of messages, lanes, revisions, tasks and
calls.

| Component | Theorems | Properties of the runs they state |
|---|---|---|
| Registry | `RegistryTypeCorrect`, `BindingsFinal`, `PruneAgrees` | all of `registry` |
| Callback path | `Invariance`, `TypeCorrect`, `StateIsHistory`, `OnlyCoveredCommits`, `ExclusiveOnce`, `NothingSpent`, `OneWinnerPerRevision`, `Implementation` | all but liveness |
| Surface worker | `TypeInvariant`, `NewestBoardStays`, `EditsRunOneByOne`, `LatestWins`, `NeverAnOlderRevision`, `NobodyOvertakes`, `LanesKeepMoving`, `Implementation` | all but liveness |
| Application | `TypeInvariant`, `GamesAreNeverLost`, `NoDeletedBoardIsBound`, `BoardsCanBeFlipped`, `SurfacesAgree`, `OrientationFollows`, `ShownGamesAreAlive` | all of `chess_app` |
| Game | `TypeInvariant`, `OnePlayerPerSide`, `RecordIsSigned`, `BoardIsReached`, `SelectionIsCurrent`, `LabelsAreTrue`, `SeatsStayTaken`, `OwnersAuthority`, `NoControlIsDead`, `MarksShowTheMoves`, `UndoIsForWhite`, `UndoAndTheTurn` | all of `chess_game` |
| Trees | `RecursiveDefinition`, `ValidationAgrees`, `DisabledThroughWrappers` | |
| Renderer | `AllOrNothing`, `RefusalsAreStructural`, `ButtonsHaveTheirOwn` | all of `rendering` |

Every module's argument is an inductive invariant, `IInv`, that TLC has found to
hold on the small instances before it was proved.

### The callback path

What one wants, `NoLostUpdate`, is not inductive: compare-and-set tests
revisions, not states. Three facts make it so. *SnapshotsArePast*: what a
task holds is a prefix of its view's journal, as long as its revision.
*RevisionCountsCommits*: the stored revision is the length of the journal.
Together they turn "the revisions are equal" into "the states are equal" (lemma
`CommitEffect`). *ResolvedIsCovered*: a task about to commit holds a token whose
capability accepts the revision of its snapshot; since the capability is final
(*EntriesAreMinted*, with `minted` never changing), the acceptance carries over
to the moment of the commit, whatever has become of the registry entry. The
other conjuncts keep a view's journal empty until its record is inserted
(*UnallocatedIsEmpty*, *OpeningIsExclusive*; this is where ids that are never
reused matter) and say which fields of a task are in use (*IdleIsEmpty*,
*RequestsAreWellFormed*). `AtMostOnce` then needs no further invariant: two
commits of one Reject token are covered at the same view and the same revision,
and the journal has one entry there.

`OneWinnerPerRevision` is about the handlers that race for a revision: one gets
through; one that does not was overtaken by another, or its view is gone or out
of revisions; and who has lost cannot get through later. The last of these is
the delicate one, for a removed record ends its view's count, and a view put
back under the same id would start to count anew. *NobodyHoldsOpening* excludes
it: nobody holds a record of a view that is still to be inserted.

For the refinement, an id allocated is `Open`, a rendered button is `Grant`, a
successful compare-and-set is `Use` or `EngineReply`, and everything else,
failures and removals included, is a stutter. Expiry and removal may only forbid
clicks, so the log does not mention them.

### The surface worker

`NewestBoardLives` alone says nothing of which calls could delete what. *PlacesFit*
does: what a call is about to delete is older than what it has sent. The rest of
`IInv` relates the scheduler to the calls: *JobsAreOwned* (a job in a lane is the
job of a call that waits for it, on that lane), *JobsAreSingle*,
*OneRenderWaits* (a latest-wins job displaces the one before it) and
*CallsKeepTheirLane* (a call on an editable surface holds its surface's lane; of
messages this is false, which is the finding of `surface_stale`).
`EditsAreSerial` follows: two edits of one surface share a lane, and it grants
one job.

`LatestWins` needs *DueInv*: what a surface is to show is on its way, or shown
and not to be overwritten, and an edit that waits in a lane is the newest
admitted. `NeverAnOlderRevision` assumes `InOrder` (callers come in the order of
their commits) and adds *OrderInv*: the edits of a lane are in the order of
their revisions, none older than what is shown.

`LanesKeepMoving` says that the lanes do not deadlock, which is not obvious: a
replacement queues its delete behind its own send in a lane that holds one
permit, so if the delete were granted while the send waits, both would wait for
ever, with every later call on that board behind them. *DeletesComeLast* says
that it never is. It is inductive only because a lane never reorders
(`NobodyOvertakes`: displaced renders, jobs turned away and dropped deletes
leave the others in their order), and because a call that gives up takes its
delete with it (*JobsAreOwned*).

For the refinement the lane of an editable surface is the queue of its edits:
one that runs, and one that waits at most (`QueueShapes`). Each step of the
worker is then compared with the step of `Projections` of the same meaning, or
shown to change nothing that is mapped.

### The application

Neither `GameStaysReachable` nor `DeletedBoardsAreUnbound` is inductive: a
handler could delete, project or bind the message that another one has just
sent. *Fresh* says that it cannot: the message that a handler has sent and not
bound yet is in the chat and known to nobody else, neither in the map nor in
another handler's list. *KnownAreSent* keeps the next message fresh too, and
*ReplacedIsGone* keeps what was replaced from being bound again. Most steps send,
bind and delete nothing (`CalmSteps`); the four that do have a lemma each
(`FirstBoardBound`, `BoardSent`, `BoardCleaned`, `BoardRebound`).
*OrientationComes* covers the moment between the two maps: a bound surface
without an orientation has a handler that is about to give it one.

With a serial dispatcher only one handler is at work, and *UpToDate* says that
all it has read is still so: its record, its list of surfaces, their
orientations. *AgreementComes* then follows its list: a bound surface that does
not agree with the store is still on it, or something has failed. *PlayInv*
follows the committed revision itself: once shown it is on a bound surface, or
the handler carries the surface that it is about to bind.

### The game

*SidesAlternate* is the heart: the side to move is known from the number of moves
made. It turns `MovesBelongToSeats` (a fact about positions in the record) into a
fact about the player to move, which the guards test. *StacksAreLevel* keeps the
three stacks together, *SeatsAreReserved* says who may sit where.
`UndoIsForWhite` rests on a fact about the record: a position that a move was made
from is not over, and Undo clears `finished`, so that if Black is to move after it
the engine is asked. `UndoAndTheTurn` says when that is: an undo of two moves
leaves the turn where it was, and an undo of one gives it to White.

`NoControlIsDead` and `MarksShowTheMoves` compare what `view` draws with what the
transitions accept: the first needs *SeatsAreReserved* (somebody always may undo,
end or restart the game) and a hypothesis on the users, that there are two of
them at least: whoever sits White, somebody else can take Black. The second needs
*SelectionIsPlayable*: the marks are drawn from the selection alone, and the
player who may act on it is the one whose turn it is. It compares them in both
directions (a mark that is not on an own piece is a move somebody can make, a
legal move of the selected piece has a click that makes it) and leaves out the
own rook, the finding of `chess_marks`.

### The renderer

The proofs about trees are inductions on their depth. The library's induction
theorem takes a predicate as a parameter, which the provers cannot instantiate;
`Recursion` states it for a set in place of the predicate (`RankInduction`), and
states once that a function defined by recursion on lower ranks is what its
definition says (`RecursiveDefinition`). It is a module with parameters, and each
recursive function of `UiTrees` takes an instance of it. On these rest
`DisabledThroughWrappers` and `ValidationAgrees`: validation accepts a tree
exactly if no part of the message it becomes is empty and no fragment of the tree
is, though it works on the tree and the message is what is left when fragments
are flattened and wrappers taken off.

*WalkInOrder*: what a render has placed, followed by what is left, is its tree.
*RegistryIsShared*: the tokens in the registry are those of the messages, one for
each. With `ValidationAgrees` a render that has registered anything succeeds (the
code checks for an empty message after the registrations, and would leave them
behind): `AllOrNothing` has no hypothesis. `ButtonsHaveTheirOwn` has one, about
the views: that the controls a view switches off are disabled in its tree.

### Only model-checked

`ContentionResolves` and `CallsReturn`: liveness under fairness. What they need
of the reachable states is proved, `OneWinnerPerRevision` of the first and
`LanesKeepMoving` of the second; that the steps which can be taken are taken is
what fairness adds, and what the runs check.

## Not modelled

* Token syntax, the wording and styles of labels, the layout and coordinates of
  the board, the parsing of commands, of environment variables and of UCI: data
  without influence on the properties.
* The lifetime of a token between its resolution and its commit, and the growth
  of a registry that nobody prunes: the first is intended, the second has no
  bound in the code that a property could state.
* A render that fails inside the application: the trees that `view` builds have
  no empty part.
* `Component` and `Effect`: nothing executes them.
* Rate limits, priorities and the delays of the scheduler; they reorder nothing
  within a lane.
* A crash: all state is in memory, nothing survives it.
* `ViewId` exhaustion: the allocator panics.

## Plan

Done, in this order: the registry and the store, the callback path with its
abstract specification and proofs, the surface worker, the game, the promise of
the surface worker and the refinement, the application's surfaces, the renderer;
then the proofs of the game, the worker and its refinement, the application and
the renderer; then those of the trees, of what the board offers, and of the
progress of handlers and lanes.

Left: nothing that a run checks and that the prover could reach is unproved. What
could still be said: that `ChessApp` under a free dispatcher settles on an older
revision only if two projections overtook each other, and the composition of
`RichRenderer` with `ActionRegistry`, of which it repeats the registration.
