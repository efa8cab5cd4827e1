----------------------------- MODULE SaveGuard -----------------------------
(***************************************************************************)
(* web/src/workload-form.ts and web/editor/index.js: the save form of a    *)
(* workload page (the CodeMirror document and the host-port rows) and the  *)
(* guard that keeps Apply and Dry build disabled while it is unsaved.      *)
(* Saves are htmx requests: the form is read when a request is issued,     *)
(* typing goes on while it is under way, and of the submits made meanwhile *)
(* the last is issued when it ends.  Around them: the server's handler     *)
(* (handleWorkloadSave), other buttons of the same form, and reloads.      *)
(***************************************************************************)
EXTENDS Naturals

CONSTANTS Docs,           \* contents of the editor
          InitialDoc      \* the one the template starts with

ASSUME SaveGuardAssumption == InitialDoc \in Docs

VARIABLES form,           \* what the form shows: its document and port rows
          savedValue,     \* the guard's baseline
          inflightValue,  \* the form at the last beforeRequest, or Nothing
          request,        \* the save under way: its stage, body and answer
          queued,         \* whether a submit waits behind it
          checking,       \* whether a Validate of the same form is under way
          disabled,       \* the guarded buttons
          wasDisabled,    \* ... as the server rendered them (a job was running)
          landed,         \* what Apply would deploy: workload.nix, the revision's ports
          outcome         \* history: the last answer this page got

guardVars == <<form, savedValue, inflightValue, request, queued, checking,
               disabled, wasDisabled, landed, outcome>>

\* The port rows: none, an empty one, a port, or one that Atoi rejects
\* ("1e3" is a valid value of a number input).
PortRows == {"none", "blank", "open", "bad"}
SaveForms == [doc : Docs, ports : PortRows]
Nothing == [doc |-> "", ports |-> "absent"]
Answers == {"none", "saved", "rejected", "failed"}
Stages == {"idle", "sent", "answered"}
NoRequest == [stage |-> "idle", body |-> Nothing, answer |-> "none"]

GuardTypeOK ==
  /\ form \in SaveForms
  /\ savedValue \in SaveForms
  /\ inflightValue \in SaveForms \union {Nothing}
  /\ request \in [stage : Stages, body : SaveForms \union {Nothing}, answer : Answers]
  /\ queued \in BOOLEAN
  /\ checking \in BOOLEAN
  /\ disabled \in BOOLEAN
  /\ wasDisabled \in BOOLEAN
  /\ landed \in SaveForms
  /\ outcome \in Answers

\* A page just loaded: the editor mounts first, then the guard takes its baseline.
GuardInit ==
  /\ form = [doc |-> InitialDoc, ports |-> "none"]
  /\ savedValue = form
  /\ inflightValue = Nothing
  /\ request = NoRequest
  /\ queued = FALSE
  /\ checking = FALSE
  /\ wasDisabled \in BOOLEAN
  /\ disabled = wasDisabled
  /\ landed = form
  /\ outcome = "none"
-----------------------------------------------------------------------------
(* The guard, and edits.                                                   *)

\* refresh(): the buttons for a form and a baseline.
Refreshed(now, baseline) == wasDisabled \/ now # baseline

\* Typing in the editor is mirrored into the textarea, which fires "input".
EditDoc == \E d \in Docs \ {form.doc} :
             /\ form' = [form EXCEPT !.doc = d]
             /\ disabled' = Refreshed(form', savedValue)
             /\ UNCHANGED <<savedValue, inflightValue, request, queued, checking,
                            wasDisabled, landed, outcome>>

\* Add and remove notify; typing into a row fires "input" itself.
EditPorts == \E p \in PortRows \ {form.ports} :
               /\ form' = [form EXCEPT !.ports = p]
               /\ disabled' = Refreshed(form', savedValue)
               /\ UNCHANGED <<savedValue, inflightValue, request, queued, checking,
                              wasDisabled, landed, outcome>>
-----------------------------------------------------------------------------
(* Saves.                                                                  *)

SentNow == [stage |-> "sent", body |-> form, answer |-> "none"]

\* The button, Ctrl+S and Mod-s: sent at once, or kept behind the one under way.
SubmitSave ==
  /\ IF request.stage = "idle"
       THEN /\ request' = SentNow
            /\ inflightValue' = form
            /\ UNCHANGED queued
       ELSE /\ queued' = TRUE
            /\ UNCHANGED <<request, inflightValue>>
  /\ UNCHANGED <<form, savedValue, checking, disabled, wasDisabled, landed, outcome>>

\* What a save leaves stored.  A failure comes before the file is written, or
\* between file and revision, or only the answer is lost.
Lands(body, answer) ==
  CASE answer = "rejected" -> {landed}
    [] answer = "saved" -> {body}
    [] answer = "failed" -> {landed, [landed EXCEPT !.doc = body.doc], body}

\* Malformed ports reject the whole save, with status 200.
HandleSave ==
  /\ request.stage = "sent"
  /\ \E answer \in IF request.body.ports = "bad" THEN {"rejected"} ELSE {"saved", "failed"} :
       /\ request' = [request EXCEPT !.stage = "answered", !.answer = answer]
       /\ landed' \in Lands(request.body, answer)
  /\ UNCHANGED <<form, savedValue, inflightValue, queued, checking, disabled,
                 wasDisabled, outcome>>

\* Broken form of the next: the baseline is what the form holds by now.
BaselineOfCurrent == form

\* The baseline a completed save leaves: what was sent.
Baseline == inflightValue

\* afterRequest: on success the baseline moves and the buttons follow; then
\* htmx releases the form and issues the submit it kept.
AfterRequest ==
  /\ request.stage = "answered"
  /\ outcome' = request.answer
  /\ IF request.answer # "failed" /\ inflightValue # Nothing
       THEN /\ savedValue' = Baseline
            /\ disabled' = Refreshed(form, savedValue')
            /\ inflightValue' = IF queued THEN form ELSE Nothing
       ELSE /\ inflightValue' = IF queued THEN form ELSE inflightValue
            /\ UNCHANGED <<savedValue, disabled>>
  /\ request' = IF queued THEN SentNow ELSE NoRequest
  /\ queued' = FALSE
  /\ UNCHANGED <<form, checking, wasDisabled, landed>>

\* Validate, inside the same form: its requests bubble the same events, but
\* their elt is the button.
Validate == /\ ~checking
            /\ checking' = TRUE
            /\ UNCHANGED <<form, savedValue, inflightValue, request, queued, disabled,
                           wasDisabled, landed, outcome>>

Validated == /\ checking
             /\ checking' = FALSE
             /\ UNCHANGED <<form, savedValue, inflightValue, request, queued, disabled,
                            wasDisabled, landed, outcome>>
-----------------------------------------------------------------------------
\* The ports a save stores: ParseHostPorts skips empty rows.
Stored(body) == [body EXCEPT !.ports = IF @ = "blank" THEN "none" ELSE @]

\* A reload once the save has ended, while a job runs or not: the form shows
\* the file and the latest revision's ports, and the guard starts over.
Reload ==
  /\ request.stage = "idle"
  /\ form' = Stored(landed)
  /\ savedValue' = form'
  /\ landed' = form'
  /\ inflightValue' = Nothing
  /\ checking' = FALSE
  /\ wasDisabled' \in BOOLEAN
  /\ disabled' = wasDisabled'
  /\ outcome' = "none"
  /\ UNCHANGED <<request, queued>>

GuardNext == \/ EditDoc \/ EditPorts \/ SubmitSave \/ HandleSave \/ AfterRequest
             \/ Validate \/ Validated \/ Reload

GuardSpec == GuardInit /\ [][GuardNext]_guardVars
-----------------------------------------------------------------------------
(* Properties.                                                             *)

\* When no save is under way and none has failed, Apply and Dry build are
\* enabled exactly if what the form shows is what the server would deploy:
\* whatever was typed while a save was in flight, however submits queue up,
\* and whatever other requests of the form complete (workload-form.ts:32-35,
\* 61-63).  A rejected save is left out for the form it rejected.
GuardTracksServer ==
  request.stage = "idle" =>
    /\ outcome \in {"none", "saved"} => (disabled <=> wasDisabled \/ form # landed)
    /\ outcome = "rejected" /\ ~disabled => form = landed \/ form.ports = "bad"
=============================================================================
