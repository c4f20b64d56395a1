------------------------------- MODULE LoginForm -------------------------------
(***************************************************************************)
(* The form of login.jsp with placeholder.js, which gives browsers that do *)
(* not know the placeholder attribute a hint all the same: it writes the   *)
(* hint into the field as if it had been typed, and shows a password field *)
(* as a text field meanwhile.  What the user means and what the field      *)
(* holds are then two things, kept apart by event handlers alone.          *)
(*                                                                         *)
(* A step is one event: of the page, of the user, or of the timer.  The    *)
(* script of login.jsp sets hideOnFocus, so a field has a focus and a blur *)
(* handler and no key handlers, and live, so the timer runs.  A text is a  *)
(* sequence of words, of which a hint is one; text is typed at the end.    *)
(***************************************************************************)
EXTENDS Sequences, Naturals

CONSTANTS
    Field,          \* the inputs of the form, one per prompt of the UAA
    PasswordField,  \* those of type password
    First,          \* the first of them on the page
    Hint,           \* the texts a placeholder attribute can have
    Word,           \* the words a user can type; hints may be among them
    None,
    MaxLength       \* bound: the most words typed into a field

Text == Seq(Hint \cup Word)

ASSUME FormAssumption ==
    /\ First \in Field
    /\ PasswordField \subseteq Field
    /\ None \notin Field \cup Hint \cup [Field -> Text]

VARIABLES
    browser,    \* what the browser can do
    page,       \* has the ready event of the document come?
    focus,      \* the field that has the focus
    hint,       \* the placeholder attribute of each field
    input,      \* the rest of each field that matters
    sent,       \* the form data on their way to /login.do
    typed,      \* history: what the user has entered in each field
    incident    \* history: what has happened to each field

vars == <<browser, page, focus, hint, input, sent, typed, incident>>

(* validTypes, of which only password is treated in a way of its own. *)
Type == {"text", "password"}

(* retype is the attribute data-placeholdertype, with or without value;    *)
(* current is data-currentplaceholder, set when the handlers are attached. *)
Input == [value : Text, type : Type, retype : BOOLEAN, current : Hint \cup {None}]

(* surprised: the field had the focus or a text when the handlers came, or *)
(* its hint has changed since; stopped: the form was sent and the page is  *)
(* still there.  Leaving the field empty makes up for both.                *)
Incident == {"surprised", "stopped"}

(* placeholder.js does nothing where the browser supports placeholders; it *)
(* cannot change the type of an input in some; and in some the event of a  *)
(* focus() comes only when the script is done.                             *)
Browser == {b \in [supports : BOOLEAN, retypes : BOOLEAN, lateFocus : BOOLEAN] :
               b.supports => ~b.retypes /\ ~b.lateFocus}

Listening(f) == input[f].current # None

(* Type invariant; the handlers are there from the ready event on, and     *)
(* only a password field that was one is shown as text.                    *)
TypeOK ==
    /\ browser \in Browser
    /\ page \in {"loading", "ready"}
    /\ focus \in Field \cup {None}
    /\ hint \in [Field -> Hint]
    /\ input \in [Field -> Input]
    /\ sent \in [Field -> Text] \cup {None}
    /\ typed \in [Field -> Text]
    /\ incident \in [Field -> SUBSET Incident]
    /\ \A f \in Field :
          /\ Listening(f) <=> page = "ready" /\ ~browser.supports
          /\ input[f].retype => Listening(f)
          /\ input[f].retype \/ input[f].type = "password" <=> f \in PasswordField

(* The field as the server has sent it. *)
Blank(f) == [value |-> <<>>, retype |-> FALSE, current |-> None,
             type |-> IF f \in PasswordField THEN "password" ELSE "text"]

Init ==
    /\ browser \in Browser
    /\ page = "loading"
    /\ focus = None
    /\ hint \in [Field -> Hint]
    /\ input = [f \in Field |-> Blank(f)]
    /\ sent = None
    /\ typed = [f \in Field |-> <<>>]
    /\ incident = [f \in Field |-> {}]

-----------------------------------------------------------------------------
(* placeholder.js: what each handler makes of an input i with hint h. *)

(* Mutant of Created: the field is not marked as done. *)
CreatedUnmarked(i, h) ==
    [value |-> IF i.value = <<>> THEN <<h>> ELSE i.value, current |-> None,
     retype |-> i.type = "password" /\ browser.retypes,
     type |-> IF browser.retypes THEN "text" ELSE i.type]

(* createPlaceholders. *)
Created(i, h) ==
    [value |-> IF i.value = <<>> THEN <<h>> ELSE i.value,
     retype |-> i.type = "password" /\ browser.retypes,
     type |-> IF browser.retypes THEN "text" ELSE i.type,
     current |-> h]

(* Mutant of Focused: the type of a password field is not restored. *)
FocusedOnly(i, h) == IF i.value = <<h>> THEN [i EXCEPT !.value = <<>>] ELSE i

(* Mutant of Focused: only what has a type to restore is cleared. *)
FocusedPasswords(i, h) ==
    IF i.retype /\ i.value = <<h>>
    THEN [i EXCEPT !.value = <<>>, !.type = "password"] ELSE i

(* focusHandler. *)
Focused(i, h) ==
    IF i.value = <<h>>
    THEN [i EXCEPT !.value = <<>>, !.type = IF i.retype THEN "password" ELSE @]
    ELSE i

(* blurHandler. *)
Blurred(i, h) ==
    IF i.value = <<>>
    THEN [i EXCEPT !.value = <<h>>, !.type = IF i.retype THEN "text" ELSE @]
    ELSE i

(* Mutant of Submitted: hints go with the form. *)
SubmittedAsIs(i, h) == i

(* submitHandler: the hint is cleared, the type not restored. *)
Submitted(i, h) == IF i.value = <<h>> THEN [i EXCEPT !.value = <<>>] ELSE i

(* Mutant of Updated: the new hint whatever the field holds. *)
UpdatedAlways(i, h) ==
    IF h = i.current THEN i ELSE [i EXCEPT !.value = <<h>>, !.current = h]

(* updatePlaceholders: only where the hint is another than before. *)
Updated(i, h) ==
    IF h = i.current THEN i
    ELSE [i EXCEPT !.value = IF @ \in {<<>>, <<h>>, <<i.current>>} THEN <<h>> ELSE @,
                   !.current = h]

(* What a handler makes of field f: i if it has been attached. *)
Handled(f, i) == IF Listening(f) THEN i ELSE input[f]

-----------------------------------------------------------------------------
(* The page. *)

(* The ready event: the script focuses the first field and then installs   *)
(* the hints.  The handler of the first field hears of the focus only if   *)
(* the field did not have it before and the event comes late.              *)
Ready ==
    /\ page = "loading"
    /\ page' = "ready"
    /\ focus' = First
    /\ LET heard == browser.lateFocus /\ focus # First
           created == [f \in Field |-> Created(input[f], hint[f])] IN
       IF browser.supports THEN UNCHANGED <<input, incident>>
       ELSE /\ input' = IF heard
                        THEN [created EXCEPT ![First] = Focused(@, hint[First])]
                        ELSE created
            /\ incident' = [f \in Field |->
                  IF typed[f] # <<>> \/ (f = First /\ ~heard)
                  THEN incident[f] \cup {"surprised"} ELSE incident[f]]
    /\ UNCHANGED <<browser, hint, sent, typed>>

(* Every 100 ms, also while the page waits for an answer. *)
UpdatePlaceholders ==
    /\ page = "ready"
    /\ ~browser.supports
    /\ input' = [f \in Field |-> Updated(input[f], hint[f])]
    /\ UNCHANGED <<browser, page, focus, hint, sent, typed, incident>>

(* Something else on the page, a translator say, changes an attribute.     *)
ChangeHint(f, h) ==
    /\ page = "ready"
    /\ hint[f] # h
    /\ hint' = [hint EXCEPT ![f] = h]
    /\ incident' = [incident EXCEPT ![f] = @ \cup {"surprised"}]
    /\ UNCHANGED <<browser, page, focus, input, sent, typed>>

(* The form is shown anew: the answer of /login.do was a redirect to it,   *)
(* or the user has reloaded the page.                                      *)
Reload ==
    /\ page' = "loading"
    /\ focus' = None
    /\ hint' \in [Field -> Hint]
    /\ input' = [f \in Field |-> Blank(f)]
    /\ sent' = None
    /\ typed' = [f \in Field |-> <<>>]
    /\ incident' = [f \in Field |-> {}]
    /\ UNCHANGED browser

-----------------------------------------------------------------------------
(* The user, who waits while the form is being sent. *)

Enter(f) ==
    /\ sent = None
    /\ focus = None
    /\ focus' = f
    /\ input' = [input EXCEPT ![f] = Handled(f, Focused(input[f], hint[f]))]
    /\ UNCHANGED <<browser, page, hint, sent, typed, incident>>

Leave(f) ==
    /\ sent = None
    /\ focus = f
    /\ focus' = None
    /\ input' = [input EXCEPT ![f] = Handled(f, Blurred(input[f], hint[f]))]
    /\ incident' = [incident EXCEPT ![f] =
                       IF input[f].value = <<>> /\ input[f].current = hint[f]
                       THEN {} ELSE @]
    /\ UNCHANGED <<browser, page, hint, sent, typed>>

Write(f, w) ==
    /\ sent = None
    /\ focus = f
    /\ Len(typed[f]) < MaxLength
    /\ input' = [input EXCEPT ![f].value = Append(@, w)]
    /\ typed' = [typed EXCEPT ![f] = Append(@, w)]
    /\ UNCHANGED <<browser, page, focus, hint, sent, incident>>

Erase(f) ==
    /\ sent = None
    /\ focus = f
    /\ input' = [input EXCEPT ![f].value = <<>>]
    /\ typed' = [typed EXCEPT ![f] = <<>>]
    /\ UNCHANGED <<browser, page, focus, hint, sent, incident>>

(* The button, or the enter key in any field. *)
Submit ==
    /\ sent = None
    /\ input' = [f \in Field |-> Handled(f, Submitted(input[f], hint[f]))]
    /\ sent' = [f \in Field |-> input'[f].value]
    /\ UNCHANGED <<browser, page, focus, hint, typed, incident>>

(* The user stops waiting for an answer and goes on with the form. *)
Stop ==
    /\ sent # None
    /\ sent' = None
    /\ incident' = [f \in Field |-> incident[f] \cup {"stopped"}]
    /\ UNCHANGED <<browser, page, focus, hint, input, typed>>

Next ==
    \/ Ready \/ UpdatePlaceholders \/ Reload \/ Submit \/ Stop
    \/ \E f \in Field :
          \/ Enter(f) \/ Leave(f) \/ Erase(f)
          \/ \E w \in Word : Write(f, w)
          \/ \E h \in Hint : ChangeHint(f, h)

Spec == Init /\ [][Next]_vars

-----------------------------------------------------------------------------
(* Properties. *)

(* No text the user has entered looks like a hint to the handlers. *)
NoHintTyped(f) == typed[f] = <<>> \/ Head(typed[f]) \notin Hint

(* No handler erases what has been typed, in whatever order the events     *)
(* come, unless it looks like a hint: at worst there is a hint before it.  *)
TypedIsKept ==
    \A f \in Field : NoHintTyped(f) =>
        \/ input[f].value = typed[f]
        \/ \E h \in Hint : input[f].value = <<h>> \o typed[f]

(* "Hide the placeholder when the element receives focus": a field with    *)
(* the focus does not hold its hint, unless it had the focus before its    *)
(* handlers, or its hint has changed.                                      *)
HintHiddenOnFocus ==
    \A f \in Field :
        focus = f /\ Listening(f) /\ "surprised" \notin incident[f]
            /\ NoHintTyped(f) => input[f].value # <<hint[f]>>

(* What is sent is what the user has entered, and never a hint, also when  *)
(* an earlier submission was stopped; with the same exceptions.            *)
SubmittedIsTyped ==
    sent # None =>
        \A f \in Field :
            "surprised" \notin incident[f] /\ NoHintTyped(f)
                => sent[f] = typed[f]

(* A password is not shown: a password field that is a text field for the  *)
(* time being holds nothing or its hint, unless one of the incidents has   *)
(* happened to it since it was last left empty.                            *)
PasswordMasked ==
    \A f \in PasswordField :
        input[f].type = "text" /\ incident[f] = {}
            => input[f].value \in {<<>>, <<hint[f]>>}
=============================================================================
