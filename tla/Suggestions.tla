------------------------------ MODULE Suggestions ------------------------------
(***************************************************************************)
(* Help for a selection in an editor.  The target of the editor is checked *)
(* before the context is assembled and again before the suggestion is      *)
(* stored; a model call of unbounded length lies between, and each check   *)
(* reads the scene and the draft in transactions of their own.  The author *)
(* goes on editing and deciding meanwhile.                                 *)
(*                                                                         *)
(* A request is named like the model call it makes.  One scene is enough:  *)
(* requests for other scenes share nothing with it.                        *)
(***************************************************************************)
EXTENDS ModelRuntime

CONSTANT MaxVersion   \* bound: manuscript versions of the scene

ASSUME SuggestionsAssumption == MaxVersion \in Nat \ {0}

VARIABLES version,     \* manuscript_scenes.version (0: no accepted text)
          draft,       \* status of the proposal a draft editor shows
          request,     \* progress of each request
          suggestion,  \* reference_suggestions
          moved        \* history: the editor's target changed during the call

sceneVars == <<version, draft, moved>>
vars == <<run, attempts, exec, version, draft, request, suggestion, moved>>

NoEditor == [source |-> "none", version |-> 0]
Editors == {NoEditor} \cup [source : {"accepted_manuscript", "proposal_draft"}, version : 0..MaxVersion]
Modes == {"local", "provider"}

Unasked == [pc |-> "unasked", editor |-> NoEditor, mode |-> "local"]
Unstored == [status |-> "none"]
Stored == [status : {"pending_review", "accepted", "rejected", "superseded"}, run : Calls, mode : Modes]

\* Type invariant.
TypeOK ==
    /\ RuntimeType
    /\ version \in 0..MaxVersion
    /\ draft \in {"pending_review", "decided"}
    /\ request \in [Calls ->
            [pc : {"unasked", "asked", "read", "calling", "answered", "reread", "checked", "over"},
             editor : Editors, mode : Modes]]
    /\ suggestion \in [Calls -> {Unstored} \cup Stored]
    /\ moved \in [Calls -> BOOLEAN]

Init ==
    /\ RuntimeInit
    /\ version \in 0..1
    /\ draft = "pending_review"
    /\ request = [c \in Calls |-> Unasked]
    /\ suggestion = [c \in Calls |-> Unstored]
    /\ moved = [c \in Calls |-> FALSE]

Goto(c, pc) == request' = [request EXCEPT ![c].pc = pc]

-----------------------------------------------------------------------------
(* _validate_editor_target, twice *)

\* Seeded fault: an editor is only told apart from none.
VersionIsAny(editor) == TRUE

\* get_manuscript_scene
VersionIsExpected(editor) ==
    editor # NoEditor =>
        /\ editor.version = version
        /\ editor.source = "accepted_manuscript" => version # 0

\* get_manuscript_proposal, later
DraftIsPending(editor) ==
    editor.source = "proposal_draft" => draft = "pending_review"

\* The editor shows what was accepted, or a draft, when the author asks.
AskForHelp(c, source, mode) ==
    /\ request[c] = Unasked
    /\ source = "accepted_manuscript" => version # 0
    /\ source = "proposal_draft" => draft = "pending_review"
    /\ request' = [request EXCEPT ![c] =
            [pc |-> "asked", mode |-> mode,
             editor |-> IF source = "none" THEN NoEditor ELSE [source |-> source, version |-> version]]]
    /\ UNCHANGED <<run, attempts, exec, suggestion>> /\ UNCHANGED sceneVars

ReadScene(c) ==
    /\ request[c].pc \in {"asked", "answered"}
    /\ VersionIsExpected(request[c].editor)
    /\ Goto(c, IF request[c].pc = "asked" THEN "read" ELSE "reread")
    /\ UNCHANGED <<run, attempts, exec, suggestion>> /\ UNCHANGED sceneVars

ReadDraft(c) ==
    /\ request[c].pc \in {"read", "reread"}
    /\ DraftIsPending(request[c].editor)
    /\ Goto(c, IF request[c].pc = "read" THEN "calling" ELSE "checked")
    /\ UNCHANGED <<run, attempts, exec, suggestion>> /\ UNCHANGED sceneVars

\* A check fails, the context cannot be assembled, or a write fails.
Refuse(c) ==
    /\ request[c].pc \in {"asked", "read", "answered", "reread", "checked"}
    /\ Goto(c, "over")
    /\ UNCHANGED <<run, attempts, exec, suggestion>> /\ UNCHANGED sceneVars

-----------------------------------------------------------------------------
(* generate_local and generate_provider *)

WriteLocally(c) ==
    /\ request[c].pc = "calling" /\ request[c].mode = "local"
    /\ Goto(c, "answered")
    /\ UNCHANGED <<run, attempts, exec, suggestion>> /\ UNCHANGED sceneVars

CallModel(c) ==
    /\ request[c].pc = "calling" /\ request[c].mode = "provider"
    /\ (\E options \in Options : Start(c, options)) \/ Execute(c)
    /\ UNCHANGED <<request, suggestion>> /\ UNCHANGED sceneVars

\* The answer goes on to the second check; an error ends the request.
TakeAnswer(c) ==
    /\ request[c].pc = "calling" /\ exec[c].pc \in {"returned", "raised"}
    /\ Goto(c, IF exec[c].pc = "returned" THEN "answered" ELSE "over")
    /\ UNCHANGED <<run, attempts, exec, suggestion>> /\ UNCHANGED sceneVars

\* create_reference; a provider's suggestion names its run in the trace.
StoreSuggestion(c) ==
    /\ request[c].pc = "checked"
    /\ suggestion' = [suggestion EXCEPT ![c] =
            [status |-> "pending_review", run |-> c, mode |-> request[c].mode]]
    /\ Goto(c, "over")
    /\ UNCHANGED <<run, attempts, exec>> /\ UNCHANGED sceneVars

\* update_reference_status: advisory text, so nothing else changes.
DecideSuggestion(c, status) ==
    /\ suggestion[c].status = "pending_review"
    /\ suggestion' = [suggestion EXCEPT ![c].status = status]
    /\ UNCHANGED <<run, attempts, exec, request>> /\ UNCHANGED sceneVars

-----------------------------------------------------------------------------
(* The manuscript meanwhile, as far as an editor's target goes *)

\* The calls whose editor loses its target.
Moving(decides, commits) ==
    moved' = [c \in Calls |-> moved[c] \/
        /\ request[c].pc = "calling" /\ request[c].editor # NoEditor
        /\ commits \/ (decides /\ request[c].editor.source = "proposal_draft")]

AcceptDraft ==
    /\ draft = "pending_review" /\ version < MaxVersion
    /\ draft' = "decided" /\ version' = version + 1
    /\ Moving(TRUE, TRUE)
    /\ UNCHANGED <<run, attempts, exec, request, suggestion>>

RejectDraft ==
    /\ draft = "pending_review"
    /\ draft' = "decided"
    /\ Moving(TRUE, FALSE)
    /\ UNCHANGED <<run, attempts, exec, version, request, suggestion>>

EditScene ==
    /\ version \in 1..(MaxVersion - 1)
    /\ version' = version + 1
    /\ Moving(FALSE, TRUE)
    /\ UNCHANGED <<run, attempts, exec, draft, request, suggestion>>

\* The process dies: requests end with their calls.
Crash ==
    /\ \E c \in Calls : request[c].pc \notin {"unasked", "over"}
    /\ LoseCalls
    /\ request' = [c \in Calls |->
            IF request[c].pc = "unasked" THEN request[c] ELSE [request[c] EXCEPT !.pc = "over"]]
    /\ UNCHANGED suggestion /\ UNCHANGED sceneVars

Next ==
    \/ \E c \in Calls :
        \/ \E source \in {"none", "accepted_manuscript", "proposal_draft"}, mode \in Modes :
            AskForHelp(c, source, mode)
        \/ ReadScene(c) \/ ReadDraft(c) \/ Refuse(c)
        \/ WriteLocally(c) \/ CallModel(c) \/ TakeAnswer(c) \/ StoreSuggestion(c)
        \/ \E status \in {"accepted", "rejected", "superseded"} : DecideSuggestion(c, status)
    \/ AcceptDraft \/ RejectDraft \/ EditScene \/ Crash

Spec == Init /\ [][Next]_vars

-----------------------------------------------------------------------------
(* Properties *)

\* A suggestion of a model that the author can read is accounted for: its run
\* is closed as succeeded, however the recorder failed or the process died.
StoredAnswersAreAccountedFor ==
    \A c \in Calls : suggestion[c] # Unstored /\ suggestion[c].mode = "provider" =>
        run[suggestion[c].run].status = "succeeded"

\* An answer that arrives after the text or the draft it was asked about has
\* changed is dropped.  A change after the second check is not seen any more.
StaleAnswersAreDropped ==
    \A c \in Calls : moved[c] => suggestion[c] = Unstored
=============================================================================
