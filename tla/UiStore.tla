------------------------------ MODULE UiStore ------------------------------
(***************************************************************************)
(* The in-memory view store (src/store.rs) and the allocator of the ids it *)
(* is keyed by (src/ids.rs).                                               *)
(*                                                                         *)
(* Each operation holds the store's mutex from its first to its last       *)
(* access, so each is one atomic operator here.  A caller that loads,      *)
(* computes and commits does so in separate steps: CallbackFlow composes   *)
(* them.                                                                   *)
(***************************************************************************)
EXTENDS UiTypes, Sequences

CONSTANT States  \* the application's state type S

VARIABLES
    records,   \* InMemoryUiStore.records: a ViewRecord per view, or None
    allocated  \* the ids ViewId::fresh has returned

\* ViewRecord, without its key and without its surface.
ViewRecord == [revision : Revision, state : States]

TypeOK ==
    /\ records \in [Views -> ViewRecord \cup {None}]
    /\ allocated \subseteq Views

Init ==
    /\ records = [v \in Views |-> None]
    /\ allocated = {}

-----------------------------------------------------------------------------

\* Mutated form of Fresh: the id returned is not taken out of circulation
\* once its view has been removed from the store.
FreshRecycled(v) ==
    /\ records[v] = None
    /\ allocated' = allocated \cup {v}
    /\ UNCHANGED records

\* ViewId::fresh returns the value its fetch_update replaces, and panics
\* rather than wrap around: no id is returned twice.
Fresh(v) ==
    /\ v \notin allocated
    /\ allocated' = allocated \cup {v}
    /\ UNCHANGED records

\* AlreadyExists leaves the record that is there alone.
Insert(v, record) ==
    /\ records' = IF records[v] = None THEN [records EXCEPT ![v] = record]
                                       ELSE records
    /\ UNCHANGED allocated

\* The result of load; the call changes nothing.
Loaded(v) == records[v]

\* Mutated form of CasOutcome: an expected revision that has been overtaken
\* by one is let through.
CasOutcomeLate(v, expected) ==
    IF records[v] = None THEN "notFound"
    ELSE IF records[v].revision \notin {expected, expected + 1} THEN "conflict"
    ELSE IF CheckedNext(records[v].revision) = None THEN "exhausted"
    ELSE "ok"

\* Mutated form of CasOutcome: the comparison is the wrong way round.
CasOutcomeNever(v, expected) ==
    IF records[v] = None THEN "notFound"
    ELSE IF records[v].revision = expected THEN "conflict"
    ELSE IF CheckedNext(records[v].revision) = None THEN "exhausted"
    ELSE "ok"

CasOutcome(v, expected) ==
    IF records[v] = None THEN "notFound"
    ELSE IF records[v].revision # expected THEN "conflict"
    ELSE IF CheckedNext(records[v].revision) = None THEN "exhausted"
    ELSE "ok"

CompareAndSet(v, expected, newState) ==
    /\ records' =
          IF CasOutcome(v, expected) = "ok"
          THEN [records EXCEPT ![v] =
                   [revision |-> CheckedNext(records[v].revision),
                    state |-> newState]]
          ELSE records
    /\ UNCHANGED allocated

Remove(v) ==
    /\ records' = [records EXCEPT ![v] = None]
    /\ UNCHANGED allocated
=============================================================================
