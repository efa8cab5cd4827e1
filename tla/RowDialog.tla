----------------------------- MODULE RowDialog ------------------------------
(***************************************************************************)
(* web/src/dialogs.ts, initSecretDialog and initFlakeDialog: one dialog    *)
(* adds and edits the rows of a table.  It is filled from the data         *)
(* attributes rendered with the page and re-pointed at the row's save      *)
(* endpoint; closing it keeps what it holds until it is opened again.      *)
(*                                                                         *)
(* A row is a value (a secret's plaintext, an input's reference) and its   *)
(* meta data (owner, group, mode and mounts; the follows flag).  The       *)
(* handlers are those of Store, with the rest of them in module Apply.     *)
(***************************************************************************)
EXTENDS Naturals

CONSTANTS RowNames,       \* names of secrets or of flake inputs
          RowValues,
          Metas,
          DefaultMeta     \* what an empty form stands for

VARIABLES kind,           \* the page: "secrets" or "flakes"
          rows,           \* the server's table
          rendered,       \* the table this page was rendered from
          open,           \* whether the dialog shows
          entry,          \* the dialog's form, its title and its action
          typed           \* history: what the user entered since it was opened

rowVars == <<kind, rows, rendered, open, entry, typed>>

NoRow == [value |-> "no value", meta |-> "no meta"]
Blank == "blank"
Adding == "add"
NotTyped == "not typed"
Rows == [value : RowValues, meta : Metas] \union {NoRow}

\* The markup, and what form.reset() returns the fields to.
Markup == [title |-> Adding, action |-> Adding, name |-> Blank, disabled |-> FALSE,
           value |-> Blank, required |-> TRUE, meta |-> DefaultMeta]
NothingTyped == [value |-> NotTyped, meta |-> NotTyped]

\* The words above stand for no name, value or meta data.
ASSUME RowDialogAssumption ==
  /\ DefaultMeta \in Metas
  /\ Blank \notin RowNames \union RowValues /\ Adding \notin RowNames
  /\ NotTyped \notin RowValues \union Metas
  /\ NoRow.value \notin RowValues

RowTypeOK ==
  /\ kind \in {"secrets", "flakes"}
  /\ rows \in [RowNames -> Rows]
  /\ rendered \in [RowNames -> Rows]
  /\ open \in BOOLEAN
  /\ entry \in [title : {Adding, "edit"}, action : RowNames \union {Adding},
                name : RowNames \union {Blank}, disabled : BOOLEAN,
                value : RowValues \union {Blank}, required : BOOLEAN, meta : Metas]
  /\ typed \in [value : RowValues \union {NotTyped}, meta : Metas \union {NotTyped}]

RowInit == /\ kind \in {"secrets", "flakes"}
           /\ rows = [n \in RowNames |-> NoRow]
           /\ rendered = rows
           /\ open = FALSE
           /\ entry = Markup
           /\ typed = NothingTyped
-----------------------------------------------------------------------------
(* The dialog.                                                             *)

Opened(e) == /\ ~open
             /\ open' = TRUE
             /\ entry' = e
             /\ typed' = NothingTyped
             /\ UNCHANGED <<kind, rows, rendered>>

\* Add: every field reset, and the form pointed at the table.
AddEntry == Markup

\* Broken form of the next: the fields that are not rendered with the row are
\* not reset.
EditWithoutReset(n) ==
  [entry EXCEPT !.title = "edit", !.action = n, !.name = n, !.disabled = TRUE,
                !.required = FALSE, !.meta = rendered[n].meta]

\* Edit: reset, then filled from the row's attributes.  A secret's value is
\* never rendered, and may be left empty; an input's reference is both.
EditEntry(n) ==
  [Markup EXCEPT !.title = "edit", !.action = n, !.name = n, !.disabled = TRUE,
                 !.value = IF kind = "flakes" THEN rendered[n].value ELSE Blank,
                 !.required = (kind = "flakes"),
                 !.meta = rendered[n].meta]

Add == Opened(AddEntry)

Edit(n) == rendered[n] # NoRow /\ Opened(EditEntry(n))

Typing(e, t) == /\ open
                /\ entry' = e
                /\ typed' = t
                /\ UNCHANGED <<kind, rows, rendered, open>>

TypeName(n) == ~entry.disabled /\ Typing([entry EXCEPT !.name = n], typed)
TypeValue(v) == Typing([entry EXCEPT !.value = v], [typed EXCEPT !.value = v])
TypeMeta(m) == Typing([entry EXCEPT !.meta = m], [typed EXCEPT !.meta = m])

Cancel == /\ open
          /\ open' = FALSE
          /\ typed' = NothingTyped
          /\ UNCHANGED <<kind, rows, rendered, entry>>

\* What the save endpoint makes of row n: a blank secret keeps its value.
Saved(n) == [value |-> IF entry.value = Blank THEN rows[n].value ELSE entry.value,
             meta |-> entry.meta]

\* The create endpoint refuses a name that exists, the save endpoint answers
\* 404 to one that does not.  Either way a page is loaded.
SubmitRow ==
  /\ open
  /\ entry.required => entry.value # Blank
  /\ ~entry.disabled => entry.name # Blank
  /\ rows' = IF entry.action = Adding
               THEN IF rows[entry.name] = NoRow
                      THEN [rows EXCEPT ![entry.name] = [value |-> entry.value, meta |-> entry.meta]]
                      ELSE rows
               ELSE IF rows[entry.action] = NoRow THEN rows
                      ELSE [rows EXCEPT ![entry.action] = Saved(entry.action)]
  /\ rendered' = rows'
  /\ open' = FALSE
  /\ entry' = Markup
  /\ typed' = NothingTyped
  /\ UNCHANGED kind

\* Another browser adds, saves or removes a row.
Elsewhere == /\ \E n \in RowNames : \E r \in Rows \ {rows[n]} : rows' = [rows EXCEPT ![n] = r]
             /\ UNCHANGED <<kind, rendered, open, entry, typed>>

RowNext == \/ Add \/ Cancel \/ SubmitRow \/ Elsewhere
           \/ \E n \in RowNames : Edit(n) \/ TypeName(n)
           \/ \E v \in RowValues : TypeValue(v)
           \/ \E m \in Metas : TypeMeta(m)

RowSpec == RowInit /\ [][RowNext]_rowVars
-----------------------------------------------------------------------------
\* The value and meta data row n has after a save, by what the dialog showed:
\* what the user entered since it was opened, else what the page rendered for
\* that row, else (Add) the defaults; a secret left blank keeps its value.
Intended(n) ==
  [value |-> IF typed.value # NotTyped THEN typed.value
             ELSE IF kind = "flakes" THEN rendered[n].value ELSE rows[n].value,
   meta |-> IF typed.meta # NotTyped THEN typed.meta
            ELSE IF entry.title = Adding THEN DefaultMeta ELSE rendered[n].meta]

\* A submit changes the row the dialog names and no other; Add never changes
\* a row that exists; and nothing is saved that was entered for another row
\* or left over from a dialog cancelled before (dialogs.ts:85-89, 123-142,
\* 150-153, 179-192).
SaveChangesOnlyWhatIsShown ==
  [][SubmitRow =>
       \A n \in RowNames :
         rows'[n] # rows[n] => /\ n = entry.name
                               /\ entry.title = Adding => rows[n] = NoRow
                               /\ rows'[n] = Intended(n)]_rowVars
=============================================================================
