------------------------------ MODULE Frontend ------------------------------
(***************************************************************************)
(* The user interface object (frontend.cpp, frontend.h): the command line  *)
(* editor, the two pages of text boxes and what the terminal shows of      *)
(* them.  Nothing is drawn twice without a reason, so the screen is right  *)
(* only if every change draws all that it changes.                         *)
(*                                                                         *)
(* One action is one call that frontend_main makes: a round of live() with *)
(* one key, or the display of one message.  The rounds that live() skips   *)
(* because less than 15 ms have passed do nothing.                         *)
(***************************************************************************)
EXTENDS Integers, Sequences

CONSTANTS
  Width,    \* columns of the window, the mSize of the command line
  MaxLine,  \* bound: the user types no longer command than this
  Space,    \* mValueSpace of a text box
  Chars,    \* characters the user types
  Texts,    \* texts that readings and status values are formatted to
  TrueText, FalseText, \* to_string(bool)
  Blank     \* a column with nothing in it

Symbols ==
  Chars \cup {Blank} \cup
  UNION {{t[i] : i \in DOMAIN t} : t \in Texts \cup {TrueText, FalseText}}

ASSUME FrontendAssumption ==
  /\ Width \in Nat \ {0} /\ Space \in Nat \ {0} /\ MaxLine \in Nat
  /\ Texts \cup {TrueText, FalseText} \subseteq Seq(Symbols)

VARIABLES
  mContent,       \* what the user has typed since the latest command
  mContentOffset, \* the first character of it that is drawn
  mDisplayedPage, \* "p1" or "stats"
  mValue,         \* the text held by each text box
  row,            \* what the columns of the command line show
  screen,         \* what the columns of each text box show
  stop_flag,      \* see ThreadBus
  running         \* live() has not returned false yet

lineVars == <<mContent, mContentOffset>>
vars == <<lineVars, mDisplayedPage, mValue, row, screen, stop_flag, running>>

(***************************************************************************)
(* The text boxes.  "sensor" stands for those set from a reading, "status" *)
(* for the fifteen set from a status message: they are set together.      *)
(***************************************************************************)
Pages == {"p1", "stats"}
PageFields(page) ==
  IF page = "p1" THEN {"sensor", "p1Stopped"} ELSE {"status", "statsStopped"}
Fields == UNION {PageFields(page) : page \in Pages}
StoppedField(page) == IF page = "p1" THEN "p1Stopped" ELSE "statsStopped"

Blanks(n) == [i \in 1 .. n |-> Blank]
BlankScreen == [f \in Fields |-> Blanks(Space)]

\* Mutant: a short text is not filled up.
FittedUnpadded(v) == IF Len(v) >= Space THEN SubSeq(v, 1, Space) ELSE v
\* text_box::value() cuts a long text and fills up a short one on the left.
Fitted(v) ==
  IF Len(v) >= Space THEN SubSeq(v, 1, Space) ELSE Blanks(Space - Len(v)) \o v

\* write() changes the columns that the text covers.
Written(cells, text) ==
  [i \in DOMAIN cells |-> IF i \in DOMAIN text THEN text[i] ELSE cells[i]]

\* The screen after the text boxes fs have been rendered.
Rendered(scr, values, fs) ==
  [f \in Fields |-> IF f \in fs THEN Written(scr[f], values[f]) ELSE scr[f]]

Init ==
  /\ mContent = <<>> /\ mContentOffset = 0
  /\ mDisplayedPage = "p1"
  /\ mValue = [f \in Fields |-> <<>>]
  /\ row = Blanks(Width) /\ screen = BlankScreen
  /\ stop_flag \in BOOLEAN
  /\ running = TRUE

-----------------------------------------------------------------------------
(***************************************************************************)
(* The command line.                                                       *)
(***************************************************************************)

LineAppend(c) ==
  /\ mContent' = Append(mContent, c)
  /\ mContentOffset' = IF Len(mContent') >= Width THEN mContentOffset + 1 ELSE mContentOffset

\* Mutant: the length is compared after the character has been removed.
PopBackThenCompare ==
  IF mContent = <<>> THEN UNCHANGED lineVars
  ELSE /\ mContent' = SubSeq(mContent, 1, Len(mContent) - 1)
       /\ mContentOffset' = IF Len(mContent') >= Width THEN mContentOffset - 1 ELSE mContentOffset
LinePopBack ==
  IF mContent = <<>> THEN UNCHANGED lineVars
  ELSE /\ mContent' = SubSeq(mContent, 1, Len(mContent) - 1)
       /\ mContentOffset' = IF Len(mContent) >= Width THEN mContentOffset - 1 ELSE mContentOffset

LineClear == mContent' = <<>> /\ mContentOffset' = 0

\* substr(offset), which throws if there is no such position.
DrawRange(content, offset) ==
  IF offset \in 0 .. Len(content) THEN SubSeq(content, offset + 1, Len(content)) ELSE <<>>

\* Mutant: the columns after the text are not cleared.
LineWrittenOnly(cells, content, offset) == Written(cells, DrawRange(content, offset))
\* The row after render(): the text, and blanks up to the last but one column.
LineRendered(cells, content, offset) ==
  [i \in DOMAIN cells |->
     IF i \in Len(content) + 1 .. Width - 1
       THEN Blank ELSE Written(cells, DrawRange(content, offset))[i]]

RenderLine(cells) == row' = LineRendered(cells, mContent', mContentOffset')

-----------------------------------------------------------------------------
(***************************************************************************)
(* One round of live(): update_stopped(), then at most one key, then the   *)
(* command line is rendered.                                               *)
(***************************************************************************)

\* Mutant: only the first page shows that the program was stopped.
UpdateStoppedP1 ==
  mValue' = [mValue EXCEPT !["p1Stopped"] = Fitted(IF stop_flag THEN TrueText ELSE FalseText)]
UpdateStopped ==
  mValue' = [mValue EXCEPT ![StoppedField(mDisplayedPage)] =
                             Fitted(IF stop_flag THEN TrueText ELSE FalseText)]

DrawStopped == screen' = Rendered(screen, mValue', {StoppedField(mDisplayedPage)})

\* What every round but the ones that change the page does.
Round == running /\ UpdateStopped /\ DrawStopped /\ UNCHANGED mDisplayedPage

LiveWithoutKey ==
  Round /\ UNCHANGED <<lineVars, row, stop_flag, running>>

LiveCharacter(c) ==
  /\ Round /\ Len(mContent) < MaxLine
  /\ LineAppend(c) /\ RenderLine(row)
  /\ UNCHANGED <<stop_flag, running>>

LiveBackspace ==
  /\ Round /\ LinePopBack /\ RenderLine(row)
  /\ UNCHANGED <<stop_flag, running>>

\* The command is evaluated: it may be "stop", and it may fail.
LiveNewline ==
  /\ Round /\ LineClear /\ RenderLine(row)
  /\ stop_flag' \in {stop_flag, TRUE}
  /\ UNCHANGED running

\* Enter and the keys without a meaning.
LiveOtherKey ==
  /\ Round /\ UNCHANGED lineVars /\ RenderLine(row)
  /\ UNCHANGED <<stop_flag, running>>

\* F1 and F2 clear the window and draw the whole page.
LiveF1F2(page) ==
  /\ running /\ UpdateStopped
  /\ mDisplayedPage' = page
  /\ screen' = Rendered(BlankScreen, mValue', PageFields(page))
  /\ UNCHANGED lineVars /\ RenderLine(Blanks(Width))
  /\ UNCHANGED <<stop_flag, running>>

LiveF9 ==
  /\ Round /\ stop_flag' = TRUE /\ running' = FALSE
  /\ UNCHANGED <<lineVars, row>>

Live ==
  \/ LiveWithoutKey \/ LiveBackspace \/ LiveNewline \/ LiveOtherKey \/ LiveF9
  \/ \E c \in Chars : LiveCharacter(c)
  \/ \E page \in Pages : LiveF1F2(page)

-----------------------------------------------------------------------------
(***************************************************************************)
(* Messages from the other threads, drawn on the page they belong to.      *)
(***************************************************************************)
\* Mutant: the message is drawn whatever page is displayed.
ShowAlways(field, page, v) ==
  /\ running
  /\ mValue' = [mValue EXCEPT ![field] = Fitted(v)]
  /\ screen' = Rendered(screen, mValue', {field})
  /\ UNCHANGED <<lineVars, mDisplayedPage, row, stop_flag, running>>
Show(field, page, v) ==
  /\ running /\ mDisplayedPage = page
  /\ mValue' = [mValue EXCEPT ![field] = Fitted(v)]
  /\ screen' = Rendered(screen, mValue', {field})
  /\ UNCHANGED <<lineVars, mDisplayedPage, row, stop_flag, running>>

UpdateSensor(v) == Show("sensor", "p1", v)
Swallow(v) == Show("status", "stats", v)

\* Another thread stops the program.
StopElsewhere ==
  /\ running /\ stop_flag' = TRUE
  /\ UNCHANGED <<lineVars, mDisplayedPage, mValue, row, screen, running>>

Ended == ~running /\ UNCHANGED vars

Next ==
  \/ Live \/ StopElsewhere \/ Ended
  \/ \E v \in Texts : UpdateSensor(v) \/ Swallow(v)

Spec == Init /\ [][Next]_vars

\* frontend_main calls live() again and again, whatever key is pressed.
FairSpec == Spec /\ WF_vars(Live)

-----------------------------------------------------------------------------
TypeOK ==
  /\ mContent \in Seq(Chars) /\ mContentOffset \in Int
  /\ mDisplayedPage \in Pages
  /\ mValue \in [Fields -> Seq(Symbols)]
  /\ \A f \in Fields : Len(mValue[f]) \in {0, Space}
  /\ row \in [1 .. Width -> Symbols]
  /\ screen \in [Fields -> [1 .. Space -> Symbols]]
  /\ stop_flag \in BOOLEAN /\ running \in BOOLEAN

(***************************************************************************)
(* The offset, which is kept by increments and decrements only, is always  *)
(* the number of characters that do not fit.  So substr() in render()      *)
(* never throws, which would end the user interface.                       *)
(***************************************************************************)
OffsetAgrees ==
  mContentOffset = IF Len(mContent) < Width THEN 0 ELSE Len(mContent) - Width + 1

(***************************************************************************)
(* The command line shows the end of what was typed and nothing else, also *)
(* after characters were removed, a command was sent or the page changed.  *)
(***************************************************************************)
RowShowsLine ==
  LET hidden == IF Len(mContent) < Width THEN 0 ELSE Len(mContent) - Width + 1
  IN \A i \in 1 .. Width :
       row[i] = IF i + hidden <= Len(mContent) THEN mContent[i + hidden] ELSE Blank

(***************************************************************************)
(* The screen shows the text boxes of the displayed page with the values   *)
(* they hold, without remnants of earlier values, and nothing of the other *)
(* page.                                                                   *)
(***************************************************************************)
ScreenIsPage ==
  \A f \in Fields :
    screen[f] = IF f \in PageFields(mDisplayedPage)
                  THEN Written(Blanks(Space), mValue[f]) ELSE Blanks(Space)

(***************************************************************************)
(* Once the program has been stopped, by whatever thread, the displayed    *)
(* page comes to say so and goes on saying so, although each page keeps a  *)
(* value of its own and a page that is brought up first shows its old one. *)
(***************************************************************************)
StoppedIsShown ==
  <>stop_flag =>
    <>[](running => screen[StoppedField(mDisplayedPage)] = Fitted(TrueText))
=============================================================================
