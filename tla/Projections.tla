----------------------------- MODULE Projections -----------------------------
(***************************************************************************)
(* What the callers of SurfaceWorker are promised, without its lanes, its  *)
(* permits and its scheduler (src/surface.rs).                             *)
(*                                                                         *)
(* An edit of an editable surface waits its turn behind the one admitted   *)
(* before it, and may be dropped before it takes effect, but never after a *)
(* newer one did.  The replacement of a message sends the new one before   *)
(* the old one goes, and says so even if the old one stays.  Nothing is    *)
(* promised about the order of two replacements of one message.            *)
(*                                                                         *)
(* SurfaceWorker implements this module (ImplementsProjections); ChessApp  *)
(* is composed with it.                                                    *)
(***************************************************************************)
EXTENDS Integers, SequencesExt

CONSTANTS
    Calls,        \* concurrent calls of project and replace_message
    Editable,     \* inline and ephemeral surfaces
    MaxMessages,  \* bound on the messages sent
    MaxRevision,  \* bound on the revisions committed
    None

Messages == 1 .. MaxMessages
Surfaces == Editable \cup Messages
Revision == 0 .. MaxRevision

VARIABLES
    phase, work,  \* where each call stands, and what it is to show where
    queue,        \* the calls that wait to edit each editable surface, in turn
    sent, live, shown  \* the chat, as in SurfaceWorker

chatVars == <<sent, live, shown>>
vars == <<phase, work, queue, chatVars>>

Work == [surface : Surfaces, revision : Revision,
         replacement : Messages \cup {None}]

Phases == {"idle", "admit", "edit", "send", "delete"}

TypeOK ==
    /\ phase \in [Calls -> Phases]
    /\ work \in [Calls -> Work \cup {None}]
    /\ queue \in [Editable -> Seq(Calls)]
    /\ sent \in Messages
    /\ live \subseteq 1 .. sent
    /\ shown \in [Surfaces -> Revision]
    /\ \A c \in Calls : phase[c] = "idle" <=> work[c] = None

Init ==
    /\ phase = [c \in Calls |-> "idle"]
    /\ work = [c \in Calls |-> None]
    /\ queue = [s \in Editable |-> << >>]
    /\ sent = 1
    /\ live = {1}
    /\ shown = [s \in Surfaces |-> 0]

Move(c, to) == phase' = [phase EXCEPT ![c] = to]

Enter(c, s, r) ==
    /\ phase[c] = "idle"
    /\ s \in Messages => s <= sent
    /\ work' = [work EXCEPT ![c] = [surface |-> s, revision |-> r,
                                    replacement |-> None]]
    /\ Move(c, IF s \in Messages THEN "send" ELSE "admit")
    /\ UNCHANGED <<queue, chatVars>>

\* The call returns.
Return(c) ==
    /\ Move(c, "idle")
    /\ work' = [work EXCEPT ![c] = None]

-----------------------------------------------------------------------------
(* project. *)

\* At most the edit whose turn it is stays in front of a new one.
Keeps(q) == {<< >>} \cup {<<Head(p)>> : p \in {q} \ {<< >>}}

Admit(c) ==
    LET s == work[c].surface
    IN  /\ phase[c] = "admit"
        /\ \E kept \in Keeps(queue[s]) :
              queue' = [queue EXCEPT ![s] = Append(kept, c)]
        /\ Move(c, "edit")
        /\ UNCHANGED <<work, chatVars>>

\* The scheduler turns a waiting edit away.
Displace(s, i) ==
    /\ i \in 1 .. Len(queue[s])
    /\ queue' = [queue EXCEPT ![s] = RemoveAt(@, i)]
    /\ UNCHANGED <<phase, work, chatVars>>

\* Only the edit whose turn it is takes effect.
Apply(c) ==
    LET s == work[c].surface
    IN  /\ phase[c] = "edit"
        /\ queue[s] # << >> /\ Head(queue[s]) = c
        /\ shown' = [shown EXCEPT ![s] = work[c].revision]
        /\ queue' = [queue EXCEPT ![s] = Tail(@)]
        /\ Return(c)
        /\ UNCHANGED <<sent, live>>

\* It may also fail, in its turn or because it was displaced.
FailEdit(c) ==
    LET s == work[c].surface
    IN  /\ phase[c] = "edit"
        /\ queue' = [queue EXCEPT ![s] = RemoveFirst(@, c)]
        /\ Return(c)
        /\ UNCHANGED chatVars

-----------------------------------------------------------------------------
(* replace_message. *)

Appear(c) ==
    /\ sent < MaxMessages
    /\ sent' = sent + 1
    /\ live' = live \cup {sent + 1}
    /\ shown' = [shown EXCEPT ![sent + 1] = work[c].revision]

Send(c) ==
    /\ phase[c] = "send"
    /\ Appear(c)
    /\ work' = [work EXCEPT ![c].replacement = sent + 1]
    /\ Move(c, "delete")
    /\ UNCHANGED queue

\* The caller is told that nothing was sent, though it may have been.
FailSend(c) ==
    /\ phase[c] = "send"
    /\ Appear(c) \/ UNCHANGED chatVars
    /\ Return(c)
    /\ UNCHANGED queue

\* The caller learns of the new message whether the old one is gone or not.
Cleanup(c) ==
    /\ phase[c] = "delete"
    /\ live' \in {live, live \ {work[c].surface}}
    /\ Return(c)
    /\ UNCHANGED <<queue, sent, shown>>

-----------------------------------------------------------------------------

Step(c) ==
    \/ Admit(c) \/ Apply(c) \/ FailEdit(c)
    \/ Send(c) \/ FailSend(c) \/ Cleanup(c)

Next ==
    \/ \E c \in Calls, s \in Surfaces, r \in Revision : Enter(c, s, r)
    \/ \E c \in Calls : Step(c)
    \/ \E s \in Editable : \E i \in 1 .. Len(queue[s]) : Displace(s, i)

Spec == Init /\ [][Next]_vars
=============================================================================
