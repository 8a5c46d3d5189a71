---------------------------- MODULE RichRenderer ----------------------------
(***************************************************************************)
(* The renders of concurrent handlers (src/render.rs) and the capabilities *)
(* they register in one registry.                                          *)
(*                                                                         *)
(* A render validates its whole tree, then walks it in document order and  *)
(* registers a capability at every enabled button; the registry's lock is  *)
(* taken anew for each, so the buttons of another render come in between.  *)
(*                                                                         *)
(* UiTrees defines what a render reads off a tree.                         *)
(***************************************************************************)
EXTENDS UiTrees

CONSTANTS
    Tasks,         \* handler tasks, each of which renders once
    Documents,     \* the trees that views build
    Off,           \* the actions of controls that views disable
    Contexts,      \* RenderContext: view, revision, actor and stale policy
    Tokens,
    None

VARIABLES
    entries,  \* the registry: token -> its context and action
    doc,      \* the Ui each task renders, or None
    context,  \* the RenderContext of its render
    rest,     \* the buttons it has not come to yet
    placed,   \* the buttons in its message so far, with their callback data
    tokens,   \* RenderedRichMessage.action_tokens
    result    \* Ok or an error when its render has returned, or None

vars == <<entries, doc, context, rest, placed, tokens, result>>

ASSUME NoneAssumption ==
    /\ None \notin Documents
    /\ None \notin Tokens
    /\ None \notin {Ok} \cup RenderErrors

ASSUME DocumentsAssumption == Documents \subseteq NodeLists

-----------------------------------------------------------------------------

Init ==
    /\ entries = [token \in {} |-> None]
    /\ doc = [t \in Tasks |-> None]
    /\ context = [t \in Tasks |-> None]
    /\ rest = [t \in Tasks |-> << >>]
    /\ placed = [t \in Tasks |-> << >>]
    /\ tokens = [t \in Tasks |-> << >>]
    /\ result = [t \in Tasks |-> None]

\* The registry with one capability more.
Registered(token, c, action) ==
    [k \in DOMAIN entries \cup {token} |->
        IF k = token THEN [context |-> c, action |-> action] ELSE entries[k]]

\* Mutated form of Render: a node is validated when its turn comes, after the
\* buttons of the first one have been registered.
RenderNodeByNode(t, d, c) ==
    LET first == IF d = << >> THEN << >> ELSE <<Head(d)>>
        pressed == {b \in ToSet(Buttons[first]) : ~b.disabled}
    IN  /\ doc[t] = None
        /\ doc' = [doc EXCEPT ![t] = d]
        /\ context' = [context EXCEPT ![t] = c]
        /\ IF NodesError[d] = Ok
           THEN /\ rest' = [rest EXCEPT ![t] = Buttons[d]]
                /\ UNCHANGED <<entries, tokens, result>>
           ELSE /\ result' = [result EXCEPT ![t] = NodesError[d]]
                /\ \E token \in Tokens \ DOMAIN entries :
                      IF NodesError[first] = Ok /\ pressed # {}
                      THEN /\ \E b \in pressed :
                                 entries' = Registered(token, c, b.action)
                           /\ tokens' = [tokens EXCEPT ![t] = <<token>>]
                      ELSE UNCHANGED <<entries, tokens>>
                /\ UNCHANGED rest
        /\ UNCHANGED placed

\* render, up to the walk.
Render(t, d, c) ==
    /\ doc[t] = None
    /\ doc' = [doc EXCEPT ![t] = d]
    /\ context' = [context EXCEPT ![t] = c]
    /\ IF NodesError[d] = Ok
       THEN rest' = [rest EXCEPT ![t] = Buttons[d]] /\ UNCHANGED result
       ELSE result' = [result EXCEPT ![t] = NodesError[d]] /\ UNCHANGED rest
    /\ UNCHANGED <<entries, placed, tokens>>

Rendering(t) == doc[t] # None /\ result[t] = None

Place(t, data) ==
    /\ placed' = [placed EXCEPT ![t] =
                     Append(@, [button |-> Head(rest[t]), data |-> data])]
    /\ rest' = [rest EXCEPT ![t] = Tail(@)]

\* render_button of a disabled button.
RenderDisabled(t) ==
    /\ Rendering(t)
    /\ rest[t] # << >> /\ Head(rest[t]).disabled
    /\ Place(t, None)
    /\ UNCHANGED <<entries, doc, context, tokens, result>>

\* render_button of an enabled button.  register_with_ttl generates a token
\* that is not in use.
RenderEnabled(t, token) ==
    LET button == Head(rest[t])
    IN  /\ Rendering(t)
        /\ rest[t] # << >> /\ ~button.disabled
        /\ token \notin DOMAIN entries
        /\ entries' = Registered(token, context[t], button.action)
        /\ tokens' = [tokens EXCEPT ![t] = Append(@, token)]
        /\ Place(t, token)
        /\ UNCHANGED <<doc, context, result>>

\* The last check of render comes after the registrations.
Return(t) ==
    /\ Rendering(t)
    /\ rest[t] = << >>
    /\ result' = [result EXCEPT ![t] =
                     IF Blocks[doc[t]] = << >> THEN "EmptyUi" ELSE Ok]
    /\ UNCHANGED <<entries, doc, context, rest, placed, tokens>>

Next ==
    \E t \in Tasks :
       \/ \E d \in Documents, c \in Contexts : Render(t, d, c)
       \/ RenderDisabled(t)
       \/ \E token \in Tokens : RenderEnabled(t, token)
       \/ Return(t)

Spec == Init /\ [][Next]_vars

-----------------------------------------------------------------------------
(* Properties. *)

\* All or nothing: a render that returns an error has registered no capability,
\* and the registry holds no others than those of messages.
FailureRegistersNothing ==
    /\ \A t \in Tasks : result[t] \notin {None, Ok} => tokens[t] = << >>
    /\ DOMAIN entries = UNION {ToSet(tokens[t]) : t \in Tasks}

\* The structural errors are found before a message is sent, and nothing else
\* is refused: a render succeeds exactly if its message, with fragments
\* flattened and wrappers removed, has no empty part (render.rs: validate_nodes
\* and render_nodes walk the tree apart).  An empty fragment is refused too.
ErrorsAreStructural ==
    \A t \in Tasks :
       result[t] # None =>
          (result[t] = Ok <=> /\ IsWellFormed[Blocks[doc[t]]]
                              /\ ~HasEmptyFragment[doc[t]])

\* A button in a message names the capability that was registered for it, in
\* its render's context, whatever other renders register in between, and
\* action_tokens lists them in document order.  For a control that the view
\* disabled there is no capability, however its cell was wrapped.
ButtonsAreOwn ==
    /\ \A t \in Tasks :
          /\ \A i \in DOMAIN placed[t] :
                LET p == placed[t][i]
                IN  IF p.button.disabled THEN p.data = None
                    ELSE /\ p.data \in DOMAIN entries
                         /\ entries[p.data] = [context |-> context[t],
                                               action |-> p.button.action]
          /\ ToSet(tokens[t]) =
                {placed[t][i].data : i \in DOMAIN placed[t]} \ {None}
          /\ IsInjective(tokens[t])
          /\ \A i, j \in DOMAIN placed[t], k, l \in DOMAIN tokens[t] :
                /\ i < j
                /\ placed[t][i].data = tokens[t][k]
                /\ placed[t][j].data = tokens[t][l]
                => k < l
          /\ Rendering(t) \/ result[t] = Ok =>
                [i \in DOMAIN placed[t] |-> placed[t][i].button] \o rest[t]
                   = Buttons[doc[t]]
    /\ \A t, u \in Tasks :
          t # u => ToSet(tokens[t]) \cap ToSet(tokens[u]) = {}
    /\ \A token \in DOMAIN entries : entries[token].action \notin Off
=============================================================================
