---------------------------- MODULE CapabilityLog ----------------------------
(***************************************************************************)
(* What the callback path promises, with no handlers, no snapshots and no  *)
(* compare-and-set: a view is a journal of the actions applied to it, a    *)
(* button is a capability granted on one view at one length of its         *)
(* journal, and a click is ONE step that checks the capability against the *)
(* journal as it stands and appends to it.                                 *)
(***************************************************************************)
EXTENDS UiTypes, Sequences

VARIABLES
    granted,  \* what each token was granted for, or None
    journal,  \* what has been applied to each view, oldest first
    opened    \* views that exist or have existed

vars == <<granted, journal, opened>>

\* One applied action: the capability that allowed it and who used it.  The
\* engine's own reply has neither.
Entry == [token : Tokens \cup {None}, actor : Users \cup {None}]

EngineEntry == [token |-> None, actor |-> None]

Init ==
    /\ granted = [t \in Tokens |-> None]
    /\ journal = [v \in Views |-> << >>]
    /\ opened = {}

Open(v) ==
    /\ v \notin opened
    /\ opened' = opened \cup {v}
    /\ UNCHANGED <<granted, journal>>

\* A capability is never granted ahead of the journal it refers to.
Grant(t) ==
    /\ granted[t] = None
    /\ \E cap \in Capability :
          /\ cap.revision <= Len(journal[cap.view])
          /\ granted' = [granted EXCEPT ![t] = cap]
    /\ UNCHANGED <<journal, opened>>

\* The capability of t lets user act on view v as it stands.
Allows(t, v, user) ==
    /\ granted[t] # None
    /\ granted[t].view = v
    /\ Permits(granted[t].actor, user)
    /\ Accepts(granted[t].stale, granted[t].revision, Len(journal[v]))

Extend(v, entry) ==
    /\ v \in opened
    /\ Len(journal[v]) < MaxRevision
    /\ journal' = [journal EXCEPT ![v] = Append(@, entry)]
    /\ UNCHANGED <<granted, opened>>

Use(t, v, user) ==
    /\ Allows(t, v, user)
    /\ Extend(v, [token |-> t, actor |-> user])

EngineReply(v) == Extend(v, EngineEntry)

Next ==
    \/ \E v \in Views : Open(v) \/ EngineReply(v)
    \/ \E t \in Tokens : Grant(t)
    \/ \E t \in Tokens, v \in Views, user \in Users : Use(t, v, user)

Spec == Init /\ [][Next]_vars
=============================================================================
