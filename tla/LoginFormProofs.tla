---------------------------- MODULE LoginFormProofs ----------------------------
(* Proofs about LoginForm, for any fields, hints and words. *)
EXTENDS LoginForm, TLAPS, SequenceTheorems

-----------------------------------------------------------------------------
(* Texts. *)

Words == Hint \cup Word

(* A hint, alone or before another text. *)
LEMMA HintTexts ==
    ASSUME NEW h \in Hint, NEW t \in Text
    PROVE  /\ <<h>> \in Text /\ <<h>> # <<>> /\ Head(<<h>>) = h
           /\ <<>> \in Text
           /\ <<h>> \o t \in Text /\ <<h>> \o t # <<>>
           /\ <<h>> \o <<>> = <<h>>
           /\ \A g \in Hint : <<h>> \o t = <<g>> => t = <<>>
<1>1. <<h>> \in Seq(Words) /\ <<h>> # <<>> /\ Len(<<h>>) = 1 /\ Head(<<h>>) = h
  BY DEF Words
<1>2. <<>> \in Seq(Words)
  BY EmptySeq
<1>3. t \in Seq(Words)
  BY DEF Words, Text
<1>4. <<h>> \o t \in Seq(Words) /\ Len(<<h>> \o t) = 1 + Len(t)
  BY <1>1, <1>3, ConcatProperties
<1>5. Len(t) \in Nat /\ (t # <<>> => Len(t) # 0)
  BY <1>3, EmptySeq
<1>6. <<h>> \o t # <<>>
  BY <1>4, <1>5, EmptySeq
<1>7. <<h>> \o <<>> = <<h>>
  BY <1>1, ConcatEmptySeq
<1>8. ASSUME NEW g \in Hint, <<h>> \o t = <<g>>
      PROVE  t = <<>>
  <2>1. Len(<<g>>) = 1
    OBVIOUS
  <2>2. 1 + Len(t) = 1
    BY <2>1, <1>4, <1>8
  <2> QED BY <2>2, <1>5
<1> QED BY <1>1, <1>2, <1>4, <1>6, <1>7, <1>8 DEF Words, Text

(* Typing a word after a hint, or at all. *)
LEMMA AppendedTexts ==
    ASSUME NEW t \in Text, NEW w \in Words
    PROVE  /\ Append(t, w) \in Text
           /\ Append(t, w) # <<>>
           /\ Head(Append(t, w)) = IF t = <<>> THEN w ELSE Head(t)
           /\ \A h \in Hint : Append(<<h>> \o t, w) = <<h>> \o Append(t, w)
<1>1. t \in Seq(Words)
  BY DEF Words, Text
<1>2. Append(t, w) \in Seq(Words) /\ Append(t, w) # <<>> /\ Append(t, w) = t \o <<w>>
  BY <1>1, AppendProperties, AppendIsConcat
<1>3. Head(Append(t, w)) = IF t = <<>> THEN w ELSE Head(t)
  BY <1>1, HeadTailAppend
<1>4. ASSUME NEW h \in Hint
      PROVE  Append(<<h>> \o t, w) = <<h>> \o Append(t, w)
  <2>1. <<h>> \in Seq(Words) /\ <<w>> \in Seq(Words)
    BY DEF Words
  <2>2. <<h>> \o t \in Seq(Words)
    BY <2>1, <1>1, ConcatProperties
  <2>3. Append(<<h>> \o t, w) = (<<h>> \o t) \o <<w>>
    BY <2>2, AppendIsConcat
  <2>4. (<<h>> \o t) \o <<w>> = <<h>> \o (t \o <<w>>)
    BY <2>1, <1>1, ConcatAssociative
  <2> QED BY <2>3, <2>4, <1>2
<1> QED BY <1>2, <1>3, <1>4 DEF Words, Text

(* Value v is what was typed, t, with at most a hint before it. *)
Keeps(v, t) ==
    t = <<>> \/ Head(t) \notin Hint => v = t \/ \E h \in Hint : v = <<h>> \o t

(* A handler that clears a hint, or writes one, keeps what was typed. *)
LEMMA HandlersKeep ==
    ASSUME NEW v \in Text, NEW t \in Text, NEW g \in Hint, Keeps(v, t),
           v = <<>> \/ \E h \in Hint : v = <<h>>
    PROVE  Keeps(<<>>, t) /\ Keeps(<<g>>, t)
<1>1. SUFFICES ASSUME t = <<>> \/ Head(t) \notin Hint
               PROVE  t = <<>>
  BY HintTexts DEF Keeps
<1>2. CASE v = <<>>
  BY <1>1, <1>2, HintTexts DEF Keeps
<1>3. CASE \E h \in Hint : v = <<h>>
  <2>1. PICK h \in Hint : v = <<h>>
    BY <1>3
  <2>2. v = t \/ \E k \in Hint : v = <<k>> \o t
    BY <1>1 DEF Keeps
  <2>3. CASE v = t
    BY <2>1, <2>3, <1>1, HintTexts
  <2>4. ASSUME NEW k \in Hint, v = <<k>> \o t
        PROVE  t = <<>>
    <3>1. <<k>> \o t = <<h>> => t = <<>>
      BY HintTexts
    <3> QED BY <3>1, <2>1, <2>4
  <2> QED BY <2>2, <2>3, <2>4
<1> QED BY <1>2, <1>3

-----------------------------------------------------------------------------
(* Type correctness. *)

(* What the handlers of placeholder.js make of an input is an input. *)
LEMMA HandlerTypes ==
    ASSUME NEW i \in Input, NEW h \in Hint, browser \in Browser
    PROVE  /\ Created(i, h) \in Input /\ Focused(i, h) \in Input
           /\ Blurred(i, h) \in Input /\ Submitted(i, h) \in Input
           /\ Updated(i, h) \in Input
<1>1. <<h>> \in Text /\ <<>> \in Text
  BY HintTexts, EmptySeq DEF Text
<1>2. i = [value |-> i.value, type |-> i.type, retype |-> i.retype, current |-> i.current]
  BY DEF Input
<1> QED BY <1>1, <1>2 DEF Input, Type, Browser, Created, Focused, Blurred,
             Submitted, Updated

(* The handlers neither attach themselves again nor forget which field is  *)
(* a password field.                                                       *)
Same(i, j) ==
    /\ j.current # None <=> i.current # None
    /\ j.retype = i.retype
    /\ j.retype \/ j.type = "password" <=> i.retype \/ i.type = "password"

(* No handler removes itself, or forgets that a field is one for passwords. *)
LEMMA HandlersStay ==
    ASSUME NEW i \in Input, NEW h \in Hint, i.current # None
    PROVE  /\ Same(i, Focused(i, h)) /\ Same(i, Blurred(i, h))
           /\ Same(i, Submitted(i, h)) /\ Same(i, Updated(i, h))
<1>1. i = [value |-> i.value, type |-> i.type, retype |-> i.retype, current |-> i.current]
      /\ i.type \in Type /\ i.retype \in BOOLEAN
  BY DEF Input
<1>2. h # None
  BY FormAssumption
<1>3. Same(i, Focused(i, h)) /\ Same(i, Blurred(i, h))
  BY <1>1 DEF Same, Focused, Blurred, Type
<1>4. Same(i, Submitted(i, h)) /\ Same(i, Updated(i, h))
  BY <1>1, <1>2 DEF Same, Submitted, Updated
<1> QED BY <1>3, <1>4

(* A step that leaves the page alone and does to the inputs what handlers  *)
(* do keeps the inputs well typed.                                         *)
LEMMA InputsStayTyped ==
    ASSUME TypeOK, page' = page, browser' = browser,
           input' \in [Field -> Input],
           \A f \in Field : Same(input[f], input'[f])
    PROVE  \A f \in Field :
              /\ Listening(f)' <=> page' = "ready" /\ ~browser'.supports
              /\ input'[f].retype => Listening(f)'
              /\ input'[f].retype \/ input'[f].type = "password" <=> f \in PasswordField
BY DEF TypeOK, Same, Listening

(* Inputs of which one is handled, or written to. *)
LEMMA OneInput ==
    ASSUME TypeOK, NEW f \in Field, NEW j \in Input, Same(input[f], j),
           input' = [input EXCEPT ![f] = j]
    PROVE  /\ input' \in [Field -> Input]
           /\ \A g \in Field : Same(input[g], input'[g])
BY DEF TypeOK, Same

(* A handler that may be attached. *)
LEMMA HandledTypes ==
    ASSUME TypeOK, NEW f \in Field
    PROVE  /\ Handled(f, Focused(input[f], hint[f])) \in Input
           /\ Handled(f, Blurred(input[f], hint[f])) \in Input
           /\ Handled(f, Submitted(input[f], hint[f])) \in Input
           /\ Same(input[f], Handled(f, Focused(input[f], hint[f])))
           /\ Same(input[f], Handled(f, Blurred(input[f], hint[f])))
           /\ Same(input[f], Handled(f, Submitted(input[f], hint[f])))
<1>1. input[f] \in Input /\ hint[f] \in Hint /\ browser \in Browser
  BY DEF TypeOK
<1>2. Same(input[f], input[f])
  BY DEF Same
<1>3. CASE ~Listening(f)
  BY <1>1, <1>2, <1>3 DEF Handled
<1>4. CASE Listening(f)
  <2>1. input[f].current # None
    BY <1>4 DEF Listening
  <2> QED BY <1>1, <1>4, <2>1, HandlerTypes, HandlersStay DEF Handled
<1> QED BY <1>3, <1>4

(* The type invariant holds for the page as the server sends it. *)
LEMMA InitTyped == Init => TypeOK
<1>1. <<>> \in Text
  BY EmptySeq DEF Text
<1> QED BY <1>1, FormAssumption
        DEF Init, TypeOK, Blank, Input, Type, Listening, Browser, Incident

(* The ready event attaches all handlers or none. *)
LEMMA ReadyTyped == TypeOK /\ Ready => TypeOK'
<1> SUFFICES ASSUME TypeOK, Ready PROVE TypeOK'
  OBVIOUS
<1>1. /\ browser' \in Browser /\ page' \in {"loading", "ready"}
      /\ focus' \in Field \cup {None} /\ hint' \in [Field -> Hint]
      /\ sent' \in [Field -> Text] \cup {None} /\ typed' \in [Field -> Text]
  BY FormAssumption DEF TypeOK, Ready
<1>2. incident' \in [Field -> SUBSET Incident]
  BY DEF TypeOK, Ready, Incident
<1>3. CASE browser.supports
  <2>1. input' = input /\ page' = "ready" /\ browser' = browser
    BY <1>3 DEF Ready
  <2> QED BY <1>1, <1>2, <1>3, <2>1 DEF TypeOK, Ready, Listening
<1>4. CASE ~browser.supports
  <2> DEFINE Made(f) == Created(input[f], hint[f])
  <2>1. ASSUME NEW f \in Field
        PROVE  /\ Made(f) \in Input /\ Made(f).current # None
               /\ Made(f).retype \/ Made(f).type = "password" <=> f \in PasswordField
    <3>1. /\ input[f] \in Input /\ hint[f] \in Hint /\ browser \in Browser
          /\ ~input[f].retype
          /\ input[f].type = "password" <=> f \in PasswordField
      BY DEF TypeOK, Ready, Listening
    <3>2. Made(f) \in Input
      BY <3>1, HandlerTypes
    <3>3. hint[f] # None
      BY <3>1, FormAssumption
    <3> QED BY <3>1, <3>2, <3>3 DEF Created, Browser
  <2>2. ASSUME NEW f \in Field
        PROVE  /\ Focused(Made(f), hint[f]) \in Input
               /\ Same(Made(f), Focused(Made(f), hint[f]))
    BY <2>1, HandlerTypes, HandlersStay DEF TypeOK
  <2> HIDE DEF Made
  <2>3. input' = [f \in Field |-> Made(f)]
        \/ input' = [f \in Field |->
                       IF f = First THEN Focused(Made(f), hint[f]) ELSE Made(f)]
    BY <1>4, FormAssumption DEF Ready, Made
  <2>4. /\ input' \in [Field -> Input]
        /\ \A f \in Field :
              /\ input'[f].current # None
              /\ input'[f].retype \/ input'[f].type = "password" <=> f \in PasswordField
    BY <2>1, <2>2, <2>3 DEF Same
  <2>5. page' = "ready" /\ browser' = browser
    BY DEF Ready
  <2> QED BY <1>1, <1>2, <1>4, <2>4, <2>5 DEF TypeOK, Listening
<1> QED BY <1>3, <1>4

(* Every event of the page, the timer and the user keeps the types. *)
LEMMA NextTyped == TypeOK /\ [Next]_vars => TypeOK'
<1> SUFFICES ASSUME TypeOK, [Next]_vars PROVE TypeOK'
  OBVIOUS
<1>1. CASE Ready
  BY <1>1, ReadyTyped
<1>2. CASE UpdatePlaceholders
  <2>1. ASSUME NEW f \in Field
        PROVE  /\ Updated(input[f], hint[f]) \in Input
               /\ Same(input[f], Updated(input[f], hint[f]))
    <3>1. /\ input[f] \in Input /\ hint[f] \in Hint /\ browser \in Browser
          /\ input[f].current # None
      BY <1>2 DEF TypeOK, UpdatePlaceholders, Listening
    <3> QED BY <3>1, HandlerTypes, HandlersStay
  <2>2. /\ input' \in [Field -> Input]
        /\ \A f \in Field : Same(input[f], input'[f])
    BY <2>1, <1>2 DEF UpdatePlaceholders
  <2>3. page' = page /\ browser' = browser
    BY <1>2 DEF UpdatePlaceholders
  <2> QED BY <1>2, <2>2, <2>3, InputsStayTyped DEF TypeOK, UpdatePlaceholders
<1>3. CASE Reload
  <2>1. <<>> \in Text
    BY EmptySeq DEF Text
  <2> QED BY <1>3, <2>1, FormAssumption
          DEF Reload, TypeOK, Blank, Input, Type, Listening, Browser, Incident
<1>4. CASE Submit
  <2>1. /\ input' \in [Field -> Input]
        /\ \A f \in Field : Same(input[f], input'[f])
    BY <1>4, HandledTypes DEF Submit
  <2>2. sent' \in [Field -> Text]
    BY <1>4, <2>1 DEF Submit, Input
  <2>3. page' = page /\ browser' = browser
    BY <1>4 DEF Submit
  <2> QED BY <1>4, <2>1, <2>2, <2>3, InputsStayTyped DEF TypeOK, Submit
<1>5. CASE Stop
  BY <1>5 DEF Stop, TypeOK, Listening, Incident
<1>6. ASSUME NEW f \in Field, Enter(f) PROVE TypeOK'
  <2>1. /\ input' \in [Field -> Input]
        /\ \A g \in Field : Same(input[g], input'[g])
    BY <1>6, HandledTypes, OneInput DEF Enter
  <2>2. page' = page /\ browser' = browser
    BY <1>6 DEF Enter
  <2> QED BY <1>6, <2>1, <2>2, InputsStayTyped DEF TypeOK, Enter
<1>7. ASSUME NEW f \in Field, Leave(f) PROVE TypeOK'
  <2>1. /\ input' \in [Field -> Input]
        /\ \A g \in Field : Same(input[g], input'[g])
    BY <1>7, HandledTypes, OneInput DEF Leave
  <2>2. page' = page /\ browser' = browser
    BY <1>7 DEF Leave
  <2> QED BY <1>7, <2>1, <2>2, InputsStayTyped DEF TypeOK, Leave
<1>8. ASSUME NEW f \in Field, Erase(f) PROVE TypeOK'
  <2>1. <<>> \in Text
    BY EmptySeq DEF Text
  <2>2. /\ input' \in [Field -> Input]
        /\ \A g \in Field : Same(input[g], input'[g])
    BY <1>8, <2>1 DEF Erase, TypeOK, Input, Same
  <2>3. page' = page /\ browser' = browser
    BY <1>8 DEF Erase
  <2> QED BY <1>8, <2>1, <2>2, <2>3, InputsStayTyped DEF TypeOK, Erase
<1>9. ASSUME NEW f \in Field, NEW w \in Word, Write(f, w) PROVE TypeOK'
  <2>1. /\ input[f] \in Input /\ typed[f] \in Text /\ input[f].value \in Text
        /\ w \in Words
    BY DEF TypeOK, Input, Words
  <2>2. Append(input[f].value, w) \in Text /\ Append(typed[f], w) \in Text
    BY <2>1, AppendedTexts
  <2>3. /\ input' \in [Field -> Input]
        /\ \A g \in Field : Same(input[g], input'[g])
    BY <1>9, <2>2 DEF Write, TypeOK, Input, Same
  <2>4. page' = page /\ browser' = browser
    BY <1>9 DEF Write
  <2> QED BY <1>9, <2>2, <2>3, <2>4, InputsStayTyped DEF TypeOK, Write
<1>10. ASSUME NEW f \in Field, NEW h \in Hint, ChangeHint(f, h) PROVE TypeOK'
  BY <1>10 DEF ChangeHint, TypeOK, Listening, Incident
<1>11. CASE UNCHANGED vars
  BY <1>11 DEF vars, TypeOK, Listening
<1> QED BY <1>1, <1>2, <1>3, <1>4, <1>5, <1>6, <1>7, <1>8, <1>9, <1>10, <1>11
        DEF Next

(* TypeOK holds in every reachable state. *)
THEOREM TypeCorrectness == Spec => []TypeOK
BY InitTyped, NextTyped, PTL DEF Spec

-----------------------------------------------------------------------------
(* The strengthening.  A clean field, one without surprise, holds what was *)
(* typed, or its current hint while it is not in use; and a password field *)
(* shown as text without incident is not in use either.                    *)

Clean(f) == "surprised" \notin incident[f]

Kept == \A f \in Field : Keeps(input[f].value, typed[f])

Plain == \A f \in Field : ~Listening(f) => input[f].value = typed[f]

Current == \A f \in Field : Listening(f) /\ Clean(f) => input[f].current = hint[f]

Honest ==
    \A f \in Field : Clean(f) /\ NoHintTyped(f) =>
        \/ input[f].value = typed[f]
        \/ typed[f] = <<>> /\ input[f].value = <<hint[f]>> /\ focus # f /\ Listening(f)

Masked ==
    \A f \in PasswordField : incident[f] = {} /\ input[f].type = "text" =>
        \/ input[f].value = <<hint[f]>> /\ focus # f
        \/ input[f].value = <<>> /\ sent # None

IInv == TypeOK /\ Kept /\ Plain /\ Current /\ Honest /\ Masked /\ SubmittedIsTyped

(* A handler replaces a value that is empty or a hint by such a value. *)
Spare(v) == v = <<>> \/ \E h \in Hint : v = <<h>>
Spares(v, w) == w = v \/ (Spare(v) /\ Spare(w))

(* Each handler replaces nothing but an empty value or a hint. *)
LEMMA HandlersSpare ==
    ASSUME NEW i \in Input, NEW h \in Hint
    PROVE  /\ Spares(i.value, Created(i, h).value)
           /\ Spares(i.value, Focused(i, h).value)
           /\ Spares(i.value, Blurred(i, h).value)
           /\ Spares(i.value, Submitted(i, h).value)
           /\ i.current \in Hint => Spares(i.value, Updated(i, h).value)
<1>1. Spare(<<>>) /\ Spare(<<h>>) /\ (i.current \in Hint => Spare(<<i.current>>))
  BY DEF Spare
<1>2. i = [value |-> i.value, type |-> i.type, retype |-> i.retype, current |-> i.current]
  BY DEF Input
<1>3. Spares(i.value, Created(i, h).value)
  BY <1>1 DEF Spares, Created
<1>4. Spares(i.value, Focused(i, h).value)
  BY <1>1, <1>2 DEF Spares, Focused
<1>5. Spares(i.value, Blurred(i, h).value)
  BY <1>1, <1>2 DEF Spares, Blurred
<1>6. Spares(i.value, Submitted(i, h).value)
  BY <1>1, <1>2 DEF Spares, Submitted
<1>7. i.current \in Hint => Spares(i.value, Updated(i, h).value)
  BY <1>1, <1>2 DEF Spares, Updated
<1> QED BY <1>3, <1>4, <1>5, <1>6, <1>7

(* What spares the value keeps what was typed. *)
LEMMA SparedIsKept ==
    ASSUME NEW v \in Text, NEW w \in Text, NEW t \in Text, Spares(v, w), Keeps(v, t)
    PROVE  Keeps(w, t)
BY HandlersKeep DEF Spares, Spare

(* An empty value or a hint, with no hint typed: nothing has been typed. *)
LEMMA SpareIsUntyped ==
    ASSUME NEW v \in Text, NEW t \in Text, Keeps(v, t), Spare(v),
           t = <<>> \/ Head(t) \notin Hint
    PROVE  t = <<>>
<1>1. CASE \E h \in Hint : h = h
  <2>1. PICK g \in Hint : TRUE
    BY <1>1
  <2>2. Keeps(<<>>, t)
    BY <2>1, HandlersKeep DEF Spare
  <2> QED BY <2>2, HintTexts DEF Keeps
<1>2. CASE ~\E h \in Hint : h = h
  BY <1>2 DEF Keeps, Spare
<1> QED BY <1>1, <1>2

(* Whether its handlers are attached or not, an event spares a field. *)
LEMMA HandledSpares ==
    ASSUME TypeOK, NEW f \in Field
    PROVE  /\ Spares(input[f].value, Handled(f, Focused(input[f], hint[f])).value)
           /\ Spares(input[f].value, Handled(f, Blurred(input[f], hint[f])).value)
           /\ Spares(input[f].value, Handled(f, Submitted(input[f], hint[f])).value)
BY HandlersSpare DEF Handled, Spares, TypeOK

(* The values of the fields that the handlers of a step have gone over. *)
LEMMA KeptByHandlers ==
    ASSUME TypeOK, TypeOK', Kept, typed' = typed,
           \A f \in Field : Spares(input[f].value, input'[f].value)
    PROVE  Kept'
<1> SUFFICES ASSUME NEW f \in Field PROVE Keeps(input'[f].value, typed'[f])
  BY DEF Kept
<1>1. input[f].value \in Text /\ input'[f].value \in Text /\ typed[f] \in Text
  BY DEF TypeOK, Input
<1> QED BY <1>1, SparedIsKept DEF Kept

(* Initially nothing is typed. *)
LEMMA InitInvariant == Init => IInv
<1> SUFFICES ASSUME Init PROVE IInv
  OBVIOUS
<1>1. TypeOK
  BY InitTyped
<1>2. Kept
  BY DEF Init, Blank, Kept, Keeps
<1>3. Plain /\ Current /\ Honest
  BY DEF Init, Blank, Plain, Current, Honest, Listening
<1>4. Masked /\ SubmittedIsTyped
  BY FormAssumption DEF Init, Blank, Masked, SubmittedIsTyped
<1> QED BY <1>1, <1>2, <1>3, <1>4 DEF IInv

(* What was typed before the ready event is an incident, as is the focus. *)
LEMMA ReadyInvariant == IInv /\ Ready => IInv'
<1> SUFFICES ASSUME IInv, Ready PROVE IInv'
  OBVIOUS
<1>1. TypeOK /\ TypeOK'
  BY ReadyTyped DEF IInv
<1>2. ASSUME NEW f \in Field
      PROVE  input[f] \in Input /\ hint[f] \in Hint /\ ~Listening(f)
             /\ input[f].value = typed[f] /\ ~input[f].retype
             /\ browser \in Browser /\ typed[f] \in Text /\ hint' = hint
             /\ typed' = typed /\ sent' = sent /\ focus' = First
  BY <1>1 DEF Ready, TypeOK, IInv, Plain
<1>3. SubmittedIsTyped'
  <2>1. \A f \in Field : incident[f] \subseteq incident'[f]
    BY <1>1 DEF Ready, TypeOK
  <2> QED BY <2>1 DEF IInv, SubmittedIsTyped, Ready, NoHintTyped
<1>4. CASE browser.supports
  <2>1. input' = input /\ incident' = incident /\ typed' = typed
    BY <1>4 DEF Ready
  <2>2. Kept' /\ Plain' /\ Current' /\ Honest'
    BY <1>2, <2>1 DEF IInv, Kept, Plain, Current, Honest, Listening, Clean, NoHintTyped
  <2>3. Masked'
    <3>1. \A f \in PasswordField : input[f].type = "password"
      BY <1>2, FormAssumption, <1>1 DEF TypeOK
    <3> QED BY <3>1, <2>1 DEF Masked
  <2> QED BY <1>1, <1>3, <2>2, <2>3 DEF IInv
<1>5. CASE ~browser.supports
  <2> DEFINE heard == browser.lateFocus /\ focus # First
             made(f) == Created(input[f], hint[f])
             told(f) == Focused(made(f), hint[f])
  <2>1. /\ input' = [f \in Field |-> IF heard /\ f = First THEN told(f) ELSE made(f)]
        /\ incident' = [f \in Field |->
                IF typed[f] # <<>> \/ (f = First /\ ~heard)
                THEN incident[f] \cup {"surprised"} ELSE incident[f]]
    <3>1. CASE heard
      BY <3>1, <1>5, FormAssumption DEF Ready
    <3>2. CASE ~heard
      BY <3>2, <1>5 DEF Ready
    <3> QED BY <3>1, <3>2
  <2>2. ASSUME NEW f \in Field
        PROVE  /\ Spares(input[f].value, made(f).value)
               /\ Spares(made(f).value, told(f).value)
               /\ Spares(input[f].value, told(f).value)
               /\ made(f).current = hint[f] /\ told(f).current = hint[f]
               /\ made(f) \in Input /\ told(f) \in Input
    <3>1. made(f) \in Input /\ told(f) \in Input
      BY <1>2, HandlerTypes
    <3>2. /\ Spares(input[f].value, made(f).value)
          /\ Spares(made(f).value, told(f).value)
      BY <1>2, <3>1, HandlersSpare
    <3>3. made(f).current = hint[f] /\ told(f).current = hint[f]
      BY <1>2 DEF Created, Focused
    <3>4. Spares(input[f].value, told(f).value)
      BY <3>2 DEF Spares
    <3> QED BY <3>1, <3>2, <3>3, <3>4
  <2>3. Kept'
    <3>1. \A f \in Field : Spares(input[f].value, input'[f].value)
      BY <2>1, <2>2
    <3> QED BY <3>1, <1>1, KeptByHandlers DEF IInv, Ready
  <2>4. Plain' /\ Current'
    <3>1. \A f \in Field : input'[f].current = hint[f]
      BY <2>1, <2>2
    <3>2. \A f \in Field : hint[f] # None
      BY <1>1, FormAssumption DEF TypeOK
    <3> QED BY <3>1, <3>2 DEF Ready, Plain, Current, Listening
  <2>5. ASSUME NEW f \in Field, Clean(f)'
        PROVE  /\ typed[f] = <<>> /\ (f = First => heard)
               /\ f # First => input'[f].value = <<hint[f]>>
               /\ f = First => input'[f].value = <<>>
               /\ f = First /\ f \in PasswordField => input'[f].type = "password"
    <3>1. typed[f] = <<>> /\ (f = First => heard)
      BY <2>1, <2>5 DEF Clean
    <3>2. made(f).value = <<hint[f]>>
      BY <3>1, <1>2 DEF Created
    <3>3. told(f).value = <<>>
      BY <3>2, <2>2 DEF Focused, Input
    <3>4. f \in PasswordField => told(f).type = "password"
      <4>1. f \in PasswordField => input[f].type = "password"
        BY <1>1, <1>2 DEF TypeOK
      <4>2. f \in PasswordField => made(f).retype \/ made(f).type = "password"
        BY <4>1, <1>2 DEF Created, Browser
      <4> QED BY <4>2, <3>2, <2>2 DEF Focused, Input
    <3> QED BY <3>1, <3>2, <3>3, <3>4, <2>1
  <2>6. Honest'
    <3>1. \A f \in Field : Listening(f)'
      BY <1>1, <1>5 DEF TypeOK, Ready
    <3> QED BY <2>5, <3>1, <1>2 DEF Honest, NoHintTyped
  <2>7. Masked'
    BY <2>5, <1>2, FormAssumption DEF Masked, Clean
  <2> QED BY <1>1, <1>3, <2>3, <2>4, <2>6, <2>7 DEF IInv
<1> QED BY <1>4, <1>5

(* The timer changes what is a hint or empty, where the hint has changed. *)
LEMMA UpdateInvariant == IInv /\ UpdatePlaceholders => IInv'
<1> SUFFICES ASSUME IInv, UpdatePlaceholders PROVE IInv'
  OBVIOUS
<1>1. TypeOK /\ TypeOK'
  BY NextTyped DEF IInv, Next
<1>2. /\ input' = [f \in Field |-> Updated(input[f], hint[f])]
      /\ UNCHANGED <<browser, page, focus, hint, sent, typed, incident>>
  BY DEF UpdatePlaceholders
<1>3. ASSUME NEW f \in Field
      PROVE  /\ input[f] \in Input /\ hint[f] \in Hint /\ Listening(f) /\ Listening(f)'
             /\ input[f].current \in Hint
  BY <1>1 DEF UpdatePlaceholders, TypeOK, Listening, Input
<1>4. ASSUME NEW f \in Field, Clean(f)
      PROVE  input'[f] = input[f]
  BY <1>2, <1>3, <1>4 DEF Updated, IInv, Current
<1>5. Kept'
  <2>1. \A f \in Field : Spares(input[f].value, input'[f].value)
    BY <1>2, <1>3, HandlersSpare
  <2> QED BY <2>1, <1>1, <1>2, KeptByHandlers DEF IInv
<1>6. Plain' /\ Current'
  BY <1>2, <1>3, <1>4 DEF IInv, Plain, Current, Clean
<1>7. Honest'
  BY <1>2, <1>3, <1>4 DEF IInv, Honest, Clean, NoHintTyped
<1>8. Masked'
  BY <1>2, <1>4, FormAssumption DEF IInv, Masked, Clean
<1>9. SubmittedIsTyped'
  BY <1>2 DEF IInv, SubmittedIsTyped, NoHintTyped
<1> QED BY <1>1, <1>5, <1>6, <1>7, <1>8, <1>9 DEF IInv

(* The submit handler clears the hints and nothing else. *)
LEMMA SubmitInvariant == IInv /\ Submit => IInv'
<1> SUFFICES ASSUME IInv, Submit PROVE IInv'
  OBVIOUS
<1>1. TypeOK /\ TypeOK'
  BY NextTyped DEF IInv, Next
<1>2. /\ sent = None
      /\ input' = [f \in Field |-> Handled(f, Submitted(input[f], hint[f]))]
      /\ sent' = [f \in Field |-> input'[f].value]
      /\ UNCHANGED <<browser, page, focus, hint, typed, incident>>
  BY DEF Submit
<1>3. ASSUME NEW f \in Field
      PROVE  /\ input[f] \in Input /\ hint[f] \in Hint /\ typed[f] \in Text
             /\ Same(input[f], input'[f])
             /\ input'[f].current = input[f].current /\ input'[f].type = input[f].type
             /\ input'[f].value = IF Listening(f) /\ input[f].value = <<hint[f]>>
                                  THEN <<>> ELSE input[f].value
  BY <1>1, <1>2, HandledTypes DEF TypeOK, Handled, Submitted, Input
<1>4. ASSUME NEW f \in Field, Clean(f), NoHintTyped(f)
      PROVE  input'[f].value = typed[f]
  <2>1. CASE input[f].value = typed[f]
    BY <1>3, <1>4, <2>1, HintTexts DEF NoHintTyped
  <2>2. CASE typed[f] = <<>> /\ input[f].value = <<hint[f]>> /\ Listening(f)
    BY <1>3, <2>2
  <2> QED BY <1>4, <2>1, <2>2 DEF IInv, Honest
<1>5. Kept'
  <2>1. \A f \in Field : Spares(input[f].value, input'[f].value)
    BY <1>2, <1>1, HandledSpares
  <2> QED BY <2>1, <1>1, <1>2, KeptByHandlers DEF IInv
<1>6. Plain' /\ Current'
  BY <1>2, <1>3 DEF IInv, Plain, Current, Clean, Listening
<1>7. Honest'
  BY <1>2, <1>4 DEF Honest, Clean, NoHintTyped
<1>8. Masked'
  <2>1. sent' # None
    <3>1. sent' \in [Field -> Text]
      BY <1>2, <1>1 DEF TypeOK, Input
    <3> QED BY <3>1, FormAssumption
  <2> QED BY <2>1, <1>2, <1>3, FormAssumption DEF IInv, Masked
<1>9. SubmittedIsTyped'
  BY <1>2, <1>4 DEF SubmittedIsTyped, NoHintTyped, Clean
<1> QED BY <1>1, <1>5, <1>6, <1>7, <1>8, <1>9 DEF IInv

(* A stopped submission is an incident for every field. *)
LEMMA StopInvariant == IInv /\ Stop => IInv'
<1> SUFFICES ASSUME IInv, Stop PROVE IInv'
  OBVIOUS
<1>1. TypeOK /\ TypeOK'
  BY NextTyped DEF IInv, Next
<1>2. /\ sent' = None
      /\ \A f \in Field : incident'[f] = incident[f] \cup {"stopped"}
      /\ UNCHANGED <<browser, page, focus, hint, input, typed>>
  BY DEF Stop
<1>3. Kept' /\ Plain'
  BY <1>2 DEF IInv, Kept, Plain, Listening
<1>4. Current' /\ Honest'
  BY <1>2 DEF IInv, Current, Honest, Listening, Clean, NoHintTyped
<1>5. Masked' /\ SubmittedIsTyped'
  BY <1>2, FormAssumption DEF Masked, SubmittedIsTyped
<1> QED BY <1>1, <1>3, <1>4, <1>5 DEF IInv

(* A reloaded page is as good as new. *)
LEMMA ReloadInvariant == IInv /\ Reload => IInv'
<1> SUFFICES ASSUME IInv, Reload PROVE IInv'
  OBVIOUS
<1>1. TypeOK'
  BY NextTyped DEF IInv, Next
<1>2. Kept' /\ Plain' /\ Current' /\ Honest'
  BY DEF Reload, Blank, Kept, Keeps, Plain, Current, Honest, Listening
<1>3. Masked' /\ SubmittedIsTyped'
  BY FormAssumption DEF Reload, Blank, Masked, SubmittedIsTyped
<1> QED BY <1>1, <1>2, <1>3 DEF IInv

(* The focus handler clears the hint before anything is typed. *)
LEMMA EnterInvariant ==
    ASSUME IInv, NEW f \in Field, Enter(f)
    PROVE  IInv'
<1>1. TypeOK /\ TypeOK'
  BY NextTyped DEF IInv, Next
<1>2. /\ sent = None /\ focus = None /\ focus' = f
      /\ input' = [input EXCEPT ![f] = Handled(f, Focused(input[f], hint[f]))]
      /\ UNCHANGED <<browser, page, hint, sent, typed, incident>>
  BY DEF Enter
<1>3. /\ input[f] \in Input /\ hint[f] \in Hint /\ typed[f] \in Text
      /\ \A g \in Field : g # f => input'[g] = input[g]
      /\ input'[f] = Handled(f, Focused(input[f], hint[f]))
  BY <1>1, <1>2 DEF TypeOK
<1>4. /\ input'[f].current = input[f].current
      /\ ~Listening(f) => input'[f] = input[f]
      /\ Listening(f) /\ input[f].value = <<hint[f]>>
            => /\ input'[f].value = <<>>
               /\ input[f].retype => input'[f].type = "password"
      /\ input[f].value # <<hint[f]>> => input'[f] = input[f]
      /\ input'[f].type = "text" => input[f].type = "text"
  BY <1>3 DEF Handled, Focused, Input
<1>5. Kept'
  <2>1. \A g \in Field : Spares(input[g].value, input'[g].value)
    BY <1>1, <1>3, HandledSpares DEF Spares
  <2> QED BY <2>1, <1>1, <1>2, KeptByHandlers DEF IInv
<1>6. Plain' /\ Current'
  BY <1>2, <1>3, <1>4 DEF IInv, Plain, Current, Clean, Listening
<1>7. Honest'
  <2>1. Clean(f) /\ NoHintTyped(f) => input'[f].value = typed[f]
    <3>1. CASE input[f].value = typed[f]
      BY <1>3, <1>4, <3>1, HintTexts DEF NoHintTyped
    <3>2. CASE typed[f] = <<>> /\ input[f].value = <<hint[f]>> /\ Listening(f)
      BY <1>4, <3>2
    <3> QED BY <3>1, <3>2 DEF IInv, Honest
  <2>2. ASSUME NEW g \in Field, g # f, Clean(g), NoHintTyped(g)
        PROVE  \/ input'[g].value = typed[g]
               \/ /\ typed[g] = <<>> /\ input'[g].value = <<hint[g]>>
                  /\ focus' # g /\ Listening(g)'
    BY <1>2, <1>3, <2>2 DEF IInv, Honest, Listening
  <2> QED BY <1>2, <2>1, <2>2 DEF Honest, Clean, NoHintTyped
<1>8. Masked'
  <2>1. f \in PasswordField /\ incident[f] = {} => input'[f].type # "text"
    <3>1. SUFFICES ASSUME f \in PasswordField, incident[f] = {}, input'[f].type = "text"
                   PROVE  FALSE
      OBVIOUS
    <3>2. input[f].type = "text" /\ input[f].value = <<hint[f]>>
      BY <1>2, <1>4, <3>1 DEF IInv, Masked
    <3>3. input[f].retype /\ Listening(f)
      BY <1>1, <3>1, <3>2 DEF TypeOK
    <3> QED BY <1>4, <3>1, <3>2, <3>3
  <2> QED BY <1>2, <1>3, <2>1, FormAssumption DEF IInv, Masked
<1>9. SubmittedIsTyped'
  BY <1>2 DEF SubmittedIsTyped
<1> QED BY <1>1, <1>5, <1>6, <1>7, <1>8, <1>9 DEF IInv

(* The blur handler writes the hint into empty fields only. *)
LEMMA LeaveInvariant ==
    ASSUME IInv, NEW f \in Field, Leave(f)
    PROVE  IInv'
<1>1. TypeOK /\ TypeOK'
  BY NextTyped DEF IInv, Next
<1>2. /\ sent = None /\ focus = f /\ focus' = None
      /\ input' = [input EXCEPT ![f] = Handled(f, Blurred(input[f], hint[f]))]
      /\ incident' = [incident EXCEPT ![f] =
                         IF input[f].value = <<>> /\ input[f].current = hint[f]
                         THEN {} ELSE @]
      /\ UNCHANGED <<browser, page, hint, sent, typed>>
  BY DEF Leave
<1>3. /\ input[f] \in Input /\ hint[f] \in Hint /\ typed[f] \in Text
      /\ \A g \in Field : g # f => input'[g] = input[g] /\ incident'[g] = incident[g]
      /\ input'[f] = Handled(f, Blurred(input[f], hint[f]))
      /\ incident'[f] = IF input[f].value = <<>> /\ input[f].current = hint[f]
                        THEN {} ELSE incident[f]
      /\ focus' # f
  BY <1>1, <1>2, FormAssumption DEF TypeOK
<1>4. /\ input'[f].current = input[f].current
      /\ ~Listening(f) => input'[f] = input[f]
      /\ Listening(f) /\ input[f].value = <<>> => input'[f].value = <<hint[f]>>
      /\ input[f].value # <<>> => input'[f] = input[f]
  BY <1>3 DEF Handled, Blurred, Input
<1>5. Kept'
  <2>1. \A g \in Field : Spares(input[g].value, input'[g].value)
    BY <1>1, <1>3, HandledSpares DEF Spares
  <2> QED BY <2>1, <1>1, <1>2, KeptByHandlers DEF IInv
<1>6. Plain' /\ Current'
  BY <1>2, <1>3, <1>4 DEF IInv, Plain, Current, Clean, Listening
<1>7. input[f].value = <<>> /\ NoHintTyped(f) => typed[f] = <<>>
  BY <1>3, SpareIsUntyped DEF Spare, NoHintTyped, IInv, Kept, Input
<1>8. Honest'
  <2>1. NoHintTyped(f) /\ Clean(f)' =>
           \/ input'[f].value = typed[f]
           \/ /\ typed[f] = <<>> /\ input'[f].value = <<hint[f]>>
              /\ focus' # f /\ Listening(f)'
    <3>1. CASE input[f].value = <<>>
      BY <1>3, <1>4, <1>7, <3>1 DEF Listening
    <3>2. CASE input[f].value # <<>>
      BY <1>2, <1>3, <1>4, <3>2 DEF IInv, Honest, Clean
    <3> QED BY <3>1, <3>2
  <2>2. ASSUME NEW g \in Field, g # f, Clean(g)', NoHintTyped(g)
        PROVE  \/ input'[g].value = typed[g]
               \/ /\ typed[g] = <<>> /\ input'[g].value = <<hint[g]>>
                  /\ focus' # g /\ Listening(g)'
    BY <1>1, <1>2, <1>3, <2>2, FormAssumption DEF IInv, Honest, Listening, Clean
  <2> QED BY <1>2, <2>1, <2>2 DEF Honest, NoHintTyped
<1>9. Masked'
  <2>1. f \in PasswordField /\ incident'[f] = {} /\ input'[f].type = "text"
           => input'[f].value = <<hint[f]>>
    <3>1. CASE input[f].value = <<>> /\ Listening(f)
      BY <1>4, <3>1
    <3>2. CASE input[f].value = <<>> /\ ~Listening(f)
      BY <1>1, <1>4, <3>2 DEF TypeOK
    <3>3. CASE input[f].value # <<>>
      BY <1>2, <1>3, <1>4, <3>3 DEF IInv, Masked
    <3> QED BY <3>1, <3>2, <3>3
  <2> QED BY <1>2, <1>3, <2>1, FormAssumption DEF IInv, Masked
<1>10. SubmittedIsTyped'
  BY <1>2 DEF SubmittedIsTyped
<1> QED BY <1>1, <1>5, <1>6, <1>8, <1>9, <1>10 DEF IInv

(* A word is typed behind what the field holds. *)
LEMMA WriteInvariant ==
    ASSUME IInv, NEW f \in Field, NEW w \in Word, Write(f, w)
    PROVE  IInv'
<1>1. TypeOK /\ TypeOK'
  BY NextTyped DEF IInv, Next
<1>2. /\ sent = None /\ focus = f
      /\ input' = [input EXCEPT ![f].value = Append(@, w)]
      /\ typed' = [typed EXCEPT ![f] = Append(@, w)]
      /\ UNCHANGED <<browser, page, focus, hint, sent, incident>>
  BY DEF Write
<1>3. /\ \A g \in Field : g # f => input'[g] = input[g] /\ typed'[g] = typed[g]
      /\ input'[f].value = Append(input[f].value, w)
      /\ typed'[f] = Append(typed[f], w)
      /\ \A g \in Field : /\ input'[g].current = input[g].current
                          /\ input'[g].type = input[g].type
  BY <1>1, <1>2 DEF TypeOK, Input
<1>4. typed[f] \in Text /\ w \in Words
  BY <1>1 DEF TypeOK, Words
<1>5. NoHintTyped(f)' => NoHintTyped(f)
  BY <1>3, <1>4, AppendedTexts DEF NoHintTyped
<1>6. Kept'
  <2>1. Keeps(input'[f].value, typed'[f])
    <3>1. SUFFICES ASSUME NoHintTyped(f)'
                   PROVE  \/ input'[f].value = typed'[f]
                          \/ \E h \in Hint : input'[f].value = <<h>> \o typed'[f]
      BY DEF Keeps, NoHintTyped
    <3>2. \/ input[f].value = typed[f]
          \/ \E h \in Hint : input[f].value = <<h>> \o typed[f]
      BY <3>1, <1>5 DEF IInv, Kept, Keeps, NoHintTyped
    <3>3. \A h \in Hint : Append(<<h>> \o typed[f], w) = <<h>> \o Append(typed[f], w)
      BY <1>4, AppendedTexts
    <3> QED BY <3>2, <3>3, <1>3
  <2> QED BY <2>1, <1>3 DEF IInv, Kept
<1>7. Plain' /\ Current'
  BY <1>2, <1>3 DEF IInv, Plain, Current, Clean, Listening
<1>8. Honest'
  BY <1>2, <1>3, <1>5 DEF IInv, Honest, Clean, Listening, NoHintTyped
<1>9. Masked'
  BY <1>2, <1>3, FormAssumption DEF IInv, Masked
<1>10. SubmittedIsTyped'
  BY <1>2 DEF SubmittedIsTyped
<1> QED BY <1>1, <1>6, <1>7, <1>8, <1>9, <1>10 DEF IInv

(* An emptied field holds nothing of what was typed. *)
LEMMA EraseInvariant ==
    ASSUME IInv, NEW f \in Field, Erase(f)
    PROVE  IInv'
<1>1. TypeOK /\ TypeOK'
  BY NextTyped DEF IInv, Next
<1>2. /\ sent = None /\ focus = f
      /\ input' = [input EXCEPT ![f].value = <<>>]
      /\ typed' = [typed EXCEPT ![f] = <<>>]
      /\ UNCHANGED <<browser, page, focus, hint, sent, incident>>
  BY DEF Erase
<1>3. /\ \A g \in Field : g # f => input'[g] = input[g] /\ typed'[g] = typed[g]
      /\ input'[f].value = <<>> /\ typed'[f] = <<>>
      /\ \A g \in Field : /\ input'[g].current = input[g].current
                          /\ input'[g].type = input[g].type
  BY <1>1, <1>2 DEF TypeOK, Input
<1>4. Kept'
  BY <1>3 DEF IInv, Kept, Keeps
<1>5. Plain' /\ Current'
  BY <1>2, <1>3 DEF IInv, Plain, Current, Clean, Listening
<1>6. Honest'
  BY <1>2, <1>3 DEF IInv, Honest, Clean, Listening, NoHintTyped
<1>7. Masked'
  BY <1>2, <1>3, FormAssumption DEF IInv, Masked
<1>8. SubmittedIsTyped'
  BY <1>2 DEF SubmittedIsTyped
<1> QED BY <1>1, <1>4, <1>5, <1>6, <1>7, <1>8 DEF IInv

(* A changed hint is an incident. *)
LEMMA ChangeInvariant ==
    ASSUME IInv, NEW f \in Field, NEW h \in Hint, ChangeHint(f, h)
    PROVE  IInv'
<1>1. TypeOK /\ TypeOK'
  BY NextTyped DEF IInv, Next
<1>2. /\ \A g \in Field : g # f => hint'[g] = hint[g] /\ incident'[g] = incident[g]
      /\ incident'[f] = incident[f] \cup {"surprised"}
      /\ UNCHANGED <<browser, page, focus, input, sent, typed>>
  BY <1>1 DEF ChangeHint, TypeOK
<1>3. Kept' /\ Plain'
  BY <1>2 DEF IInv, Kept, Plain, Listening
<1>4. Current' /\ Honest'
  BY <1>2 DEF IInv, Current, Honest, Listening, Clean, NoHintTyped
<1>5. Masked'
  BY <1>2, FormAssumption DEF IInv, Masked
<1>6. SubmittedIsTyped'
  BY <1>2 DEF IInv, SubmittedIsTyped, NoHintTyped
<1> QED BY <1>1, <1>3, <1>4, <1>5, <1>6 DEF IInv

(* Every event keeps the strengthening. *)
LEMMA NextInvariant == IInv /\ [Next]_vars => IInv'
<1> SUFFICES ASSUME IInv, [Next]_vars PROVE IInv'
  OBVIOUS
<1>1. CASE Ready \/ UpdatePlaceholders \/ Reload \/ Submit \/ Stop
  BY <1>1, ReadyInvariant, UpdateInvariant, ReloadInvariant, SubmitInvariant, StopInvariant
<1>2. ASSUME NEW f \in Field, Enter(f) \/ Leave(f) \/ Erase(f) PROVE IInv'
  BY <1>2, EnterInvariant, LeaveInvariant, EraseInvariant
<1>3. ASSUME NEW f \in Field, NEW w \in Word, Write(f, w) PROVE IInv'
  BY <1>3, WriteInvariant
<1>4. ASSUME NEW f \in Field, NEW h \in Hint, ChangeHint(f, h) PROVE IInv'
  BY <1>4, ChangeInvariant
<1>5. CASE UNCHANGED vars
  <2>1. TypeOK'
    BY NextTyped DEF IInv
  <2>2. Kept' /\ Plain' /\ Current'
    BY <1>5 DEF vars, IInv, Kept, Plain, Current, Listening, Clean
  <2>3. Honest' /\ Masked' /\ SubmittedIsTyped'
    BY <1>5 DEF vars, IInv, Honest, Masked, SubmittedIsTyped, Listening, Clean, NoHintTyped
  <2> QED BY <2>1, <2>2, <2>3 DEF IInv
<1> QED BY <1>1, <1>2, <1>3, <1>4, <1>5 DEF Next

(* The strengthening is an invariant. *)
LEMMA Invariance == Spec => []IInv
BY InitInvariant, NextInvariant, PTL DEF Spec

(* No handler erases what has been typed: TypedIsKept. *)
THEOREM TypedTextStays == Spec => []TypedIsKept
<1>1. IInv => TypedIsKept
  BY DEF IInv, Kept, Keeps, TypedIsKept, NoHintTyped
<1> QED BY <1>1, Invariance, PTL

(* A field with the focus does not hold its hint: HintHiddenOnFocus. *)
THEOREM FocusHidesHints == Spec => []HintHiddenOnFocus
<1>1. ASSUME IInv, NEW f \in Field, focus = f, Listening(f), Clean(f), NoHintTyped(f)
      PROVE  input[f].value # <<hint[f]>>
  <2>1. hint[f] \in Hint /\ typed[f] \in Text
    BY <1>1 DEF IInv, TypeOK
  <2>2. input[f].value = typed[f]
    BY <1>1 DEF IInv, Honest
  <2> QED BY <1>1, <2>1, <2>2, HintTexts DEF NoHintTyped
<1>2. IInv => HintHiddenOnFocus
  BY <1>1 DEF HintHiddenOnFocus, Clean
<1> QED BY <1>2, Invariance, PTL

(* What is sent is what was typed: SubmittedIsTyped. *)
THEOREM FormsSendWhatWasTyped == Spec => []SubmittedIsTyped
<1>1. IInv => SubmittedIsTyped
  BY DEF IInv
<1> QED BY <1>1, Invariance, PTL

(* A password field shown as text holds nothing or its hint: PasswordMasked. *)
THEOREM PasswordsAreMasked == Spec => []PasswordMasked
<1>1. IInv => PasswordMasked
  BY DEF IInv, Masked, PasswordMasked
<1> QED BY <1>1, Invariance, PTL
=============================================================================
