------------------------------ MODULE Dialogs ------------------------------
(***************************************************************************)
(* web/src/dialogs.ts, the part every page shares: the stack of modal      *)
(* dialogs, the shared confirmation that holds a [data-confirm] form back, *)
(* the lazy new-workload dialog that opens when its fragment lands, and    *)
(* the destroy dialog that closes when its request succeeds.  What is      *)
(* under the topmost modal is inert; answers arrive whatever is open.      *)
(***************************************************************************)
EXTENDS Naturals, Sequences, SequencesExt

CONSTANTS RowForms,       \* the remove forms of a table: plain POSTs
          PowerForms      \* restart and shut down: hx-post

VARIABLES page,           \* "rows" (secrets, flakes), "system" or "workload"
          modals,         \* the open modal dialogs, the topmost last
          pendingConfirm, \* the form held back, or NoForm
          confirmed,      \* the forms that carry data-confirmed
          message,        \* the form whose message #confirm-message shows
          passed,         \* the gated form this step let through, or NoForm
          fetch,          \* requests whose answer goes into the lazy dialog
          destroying      \* whether the destroy request is under way

dialogVars == <<page, modals, pendingConfirm, confirmed, message, passed, fetch, destroying>>

NoForm == "no form"
GatedForms == RowForms \union PowerForms
Gated == CASE page = "rows" -> RowForms
           [] page = "system" -> PowerForms
           [] page = "workload" -> {}

\* The page's own dialog: a row's editor, or destroy.
OwnDialog == CASE page = "rows" -> {"row"}
               [] page = "system" -> {}
               [] page = "workload" -> {"destroy"}

DialogTypeOK ==
  /\ page \in {"rows", "system", "workload"}
  /\ modals \in Seq({"confirm", "lazy", "row", "destroy"})
  /\ pendingConfirm \in GatedForms \union {NoForm}
  /\ confirmed \subseteq GatedForms
  /\ message \in GatedForms \union {NoForm}
  /\ passed \in GatedForms \union {NoForm}
  /\ fetch \subseteq {"initial", "fields", "create"}
  /\ destroying \in BOOLEAN

\* A page just loaded.
DialogInit == /\ page \in {"rows", "system", "workload"}
              /\ modals = <<>>
              /\ pendingConfirm = NoForm
              /\ confirmed = {}
              /\ message = NoForm
              /\ passed = NoForm
              /\ fetch = {}
              /\ destroying = FALSE
-----------------------------------------------------------------------------
IsOpen(d) == Contains(modals, d)
OnTop(d) == modals # <<>> /\ Last(modals) = d
Without(d) == RemoveFirst(modals, d)

Quiet == passed' = NoForm /\ UNCHANGED page

\* A [data-open-dialog] button, or a row's Edit: only where nothing is modal.
OpenDialog == /\ modals = <<>>
              /\ \E d \in OwnDialog : modals' = <<d>>
              /\ Quiet
              /\ UNCHANGED <<pendingConfirm, confirmed, message, fetch, destroying>>

\* Cancel, the cross or Escape.
CloseTop == /\ modals # <<>>
            /\ modals' = Front(modals)
            /\ Quiet
            /\ UNCHANGED <<pendingConfirm, confirmed, message, fetch, destroying>>
-----------------------------------------------------------------------------
(* Confirmation.                                                           *)

\* Broken form of the next: a form already held back stays.
HeldFirst(f) == IF pendingConfirm = NoForm THEN f ELSE pendingConfirm

Held(f) == f
FlagUsed(f, flags) == flags \ {f}

\* The capture-phase listener on submit, for the flags, the pending form and
\* the dialogs of the moment: a flagged form goes through and loses its flag,
\* any other is held and its message shown.
Listener(f, flags, pending, dialogs) ==
  /\ IF f \in flags
       THEN /\ passed' = f
            /\ confirmed' = FlagUsed(f, flags)
            /\ pendingConfirm' = pending
            /\ modals' = dialogs
            /\ UNCHANGED message
       ELSE /\ passed' = NoForm
            /\ confirmed' = flags
            /\ pendingConfirm' = Held(f)
            /\ modals' = Append(dialogs, "confirm")
            /\ message' = f
  /\ UNCHANGED <<page, fetch, destroying>>

Submit(f) == /\ modals = <<>> /\ f \in Gated
             /\ Listener(f, confirmed, pendingConfirm, modals)

\* [data-confirm-ok]: the dialog closes, and the form is flagged and submitted
\* again, which runs the listener at once.
ConfirmOk == /\ OnTop("confirm")
             /\ LET f == pendingConfirm
                IN  Listener(f, confirmed \union {f}, NoForm, Without("confirm"))

\* A plain form's POST, once through, loads a page; a user may navigate too.
LoadPage == /\ page' \in {"rows", "system", "workload"}
            /\ modals' = <<>>
            /\ pendingConfirm' = NoForm
            /\ confirmed' = {}
            /\ message' = NoForm
            /\ passed' = NoForm
            /\ fetch' = {}
            /\ destroying' = FALSE
-----------------------------------------------------------------------------
(* The lazy dialog and the destroy dialog.                                 *)

\* New, in the sidebar; a type radio or Create, inside the dialog.
Fetch == /\ \E r \in IF modals = <<>> THEN {"initial"}
                     ELSE IF OnTop("lazy") THEN {"fields", "create"} ELSE {} :
               fetch' = fetch \union {r}
         /\ Quiet
         /\ UNCHANGED <<modals, pendingConfirm, confirmed, message, destroying>>

\* Broken form of the next: a dialog is shown without asking whether it is.
ShownAgain(d) == Append(modals, d)

\* showModal() behind the !dlg.open guard.
WithShown(d) == IF IsOpen(d) THEN modals ELSE Append(modals, d)

\* afterSwap inside the dialog, a 422 of Create included; a Create that
\* succeeds is LoadPage.
Land == \E r \in fetch : /\ fetch' = fetch \ {r}
                         /\ modals' = WithShown("lazy")
                         /\ Quiet
                         /\ UNCHANGED <<pendingConfirm, confirmed, message, destroying>>

Destroy == /\ OnTop("destroy") /\ ~destroying
           /\ destroying' = TRUE
           /\ Quiet
           /\ UNCHANGED <<modals, pendingConfirm, confirmed, message, fetch>>

\* Its answer: the dialog closes if it succeeded, wherever it stands by then.
Destroyed == /\ destroying
             /\ destroying' = FALSE
             /\ modals' \in {modals, Without("destroy")}
             /\ Quiet
             /\ UNCHANGED <<pendingConfirm, confirmed, message, fetch>>

DialogNext == \/ OpenDialog \/ CloseTop \/ ConfirmOk \/ LoadPage
              \/ Fetch \/ Land \/ Destroy \/ Destroyed
              \/ \E f \in GatedForms : Submit(f)

DialogSpec == DialogInit /\ [][DialogNext]_dialogVars
-----------------------------------------------------------------------------
\* A form marked data-confirm goes through only from the confirmation, on top
\* and showing that form's own message: whatever was held back and cancelled
\* before, and however often a form that stays on the page is submitted
\* (dialogs.ts:51-58, 74-82).
OnlyConfirmed ==
  [][passed' # NoForm => /\ OnTop("confirm")
                         /\ message = passed']_dialogVars

\* No dialog is shown while it is showing, which would throw and drop what the
\* listener does next: fragments land whatever is open (dialogs.ts:33-36).
DialogsShowOnce == \A i, j \in DOMAIN modals : modals[i] = modals[j] => i = j
=============================================================================
