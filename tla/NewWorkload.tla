---------------------------- MODULE NewWorkload -----------------------------
(***************************************************************************)
(* web/src/new-workload.ts: the form of a new workload.  Its ID is derived *)
(* from the display name until it is edited by hand: data-auto on the ID   *)
(* holds the value last derived.  The type radios carry the cap on an ID.  *)
(*                                                                         *)
(* Texts are sequences of characters, here an "a" (any letter or digit,    *)
(* capitals included), a blank (anything else) and the dash.               *)
(***************************************************************************)
EXTENDS Naturals, Sequences, SequencesExt

CONSTANTS Caps,           \* the types' maximal ID lengths (11 and 63 in the code)
          MaxText,        \* bound: length of a display name
          HandIds         \* IDs entered by hand

ASSUME NewWorkloadAssumption == Caps \subseteq Nat \ {0} /\ MaxText \in Nat

VARIABLES display,        \* the display name
          name,           \* the ID
          auto,           \* data-auto: {} or the one value
          cap,            \* maxLength: the selected type's
          own,            \* history: {} or the ID last entered by hand
          fit             \* history: the smallest cap since the last derivation

newVars == <<display, name, auto, cap, own, fit>>

Displays == UNION {[1..n -> {"a", " ", "-"}] : n \in 0..MaxText}
Ids == (UNION {[1..n -> {"a", "-"}] : n \in 0..MaxText}) \union HandIds

NewTypeOK == /\ display \in Displays
             /\ name \in Ids
             /\ \E id \in Ids : auto \in {{}, {id}}
             /\ cap \in Caps
             /\ \E id \in Ids : own \in {{}, {id}}
             /\ fit \in Caps

NewInit == /\ display = <<>>
           /\ name = <<>>
           /\ auto = {}
           /\ cap \in Caps
           /\ own = {}
           /\ fit = cap
-----------------------------------------------------------------------------
\* Each run of other characters becomes a dash; none at the start.
Dashed(text) ==
  LET id[i \in 0..Len(text)] ==
        IF i = 0 THEN <<>>
        ELSE IF text[i] = "a" THEN Append(id[i - 1], "a")
        ELSE IF id[i - 1] = <<>> \/ Last(id[i - 1]) = "-" THEN id[i - 1]
        ELSE Append(id[i - 1], "-")
  IN  id[Len(text)]
Cut(id, max) == SubSeq(id, 1, IF Len(id) < max THEN Len(id) ELSE max)
Trimmed(id) == IF id # <<>> /\ Last(id) = "-" THEN Front(id) ELSE id

\* Broken form of the next: trimmed before it is cut.
SlugTrimmedFirst(text, max) == Cut(Trimmed(Dashed(text)), max)

Slugify(text, max) == Trimmed(Cut(Dashed(text), max))

Derive(text, max) == name' = Slugify(text, max) /\ auto' = {name'}

\* Typing a display name derives the ID while it is empty or still derived.
InputDisplay == \E d \in Displays \ {display} :
                  /\ display' = d
                  /\ IF name = <<>> \/ auto = {name}
                       THEN Derive(d, cap) /\ fit' = cap /\ own' = {}
                       ELSE UNCHANGED <<name, auto, fit, own>>
                  /\ UNCHANGED cap

\* Broken form of the next: data-auto survives an edit by hand.
AutoKept == auto

AutoAfterEdit == {}

\* Typing an ID, or clearing it; maxLength stops what would be too long.
InputName == \E id \in HandIds \union {<<>>} :
               /\ id # name /\ Len(id) <= cap
               /\ name' = id
               /\ auto' = AutoAfterEdit
               /\ own' = {id}
               /\ UNCHANGED <<display, cap, fit>>

\* Another type: a derived ID is fitted to its cap, one typed by hand is not.
ChangeType == \E c \in Caps \ {cap} :
                /\ cap' = c
                /\ IF name # <<>> /\ auto = {name}
                     THEN Derive(name, c) /\ fit' = IF c < fit THEN c ELSE fit
                     ELSE UNCHANGED <<name, auto, fit>>
                /\ UNCHANGED <<display, own>>

\* The pattern of every type: [a-z0-9]([a-z0-9-]{0,cap-2}[a-z0-9])?
Matches(id, max) == Len(id) \in 1..max /\ id[1] = "a" /\ Last(id) = "a"

\* Create, refused (the ID is taken): a 422 renders the form anew, with the
\* values it had and without data-auto.
Refused == /\ Matches(name, cap)
           /\ auto' = {}
           /\ own' = {name}
           /\ UNCHANGED <<display, name, cap, fit>>

NewNext == InputDisplay \/ InputName \/ ChangeType \/ Refused

NewSpec == NewInit /\ [][NewNext]_newVars
-----------------------------------------------------------------------------
\* An ID entered by hand is never replaced, by a display name edited later,
\* by another type or by a refused Create; clearing it is what re-enables the
\* derivation (new-workload.ts:1-4, 38-39).
HandTypedIdKept == own # {} /\ own # {<<>>} => own = {name}

\* A derived ID is one the server takes: it matches the pattern and the cap of
\* the type selected by now, and is the display name's slug at the smallest cap
\* selected since, however types were switched (new-workload.ts:8-11, 38-41).
DerivedIdFits ==
  auto = {name} /\ name # <<>> =>
    Matches(name, cap) /\ name = Slugify(display, fit)
=============================================================================
