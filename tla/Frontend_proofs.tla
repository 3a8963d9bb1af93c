--------------------------- MODULE Frontend_proofs ---------------------------
(***************************************************************************)
(* Proofs about the user interface object, for every width of the command  *)
(* line and of the text boxes, every text and a command of every length.   *)
(***************************************************************************)
EXTENDS Frontend, SequenceTheorems, TLAPS

(***************************************************************************)
(* The command line: its content is a sequence, and the offset is what     *)
(* OffsetAgrees says.                                                      *)
(***************************************************************************)
LineInv ==
  /\ mContent \in Seq(Chars)
  /\ OffsetAgrees

(***************************************************************************)
(* The row of the command line shows it; the terminal shows the page.      *)
(***************************************************************************)
RowInv == row \in [1 .. Width -> Symbols] /\ RowShowsLine

ScreenInv ==
  /\ mDisplayedPage \in Pages
  /\ mValue \in [Fields -> Seq(Symbols)]
  /\ \A f \in Fields : Len(mValue[f]) \in {0, Space}
  /\ screen \in [Fields -> [1 .. Space -> Symbols]]
  /\ ScreenIsPage

FlagsInv == stop_flag \in BOOLEAN /\ running \in BOOLEAN

InterfaceInv == LineInv /\ RowInv /\ ScreenInv /\ FlagsInv

\* The number of characters that are hidden, for a line of n characters.
Hidden(n) == IF n < Width THEN 0 ELSE (n - Width) + 1

-----------------------------------------------------------------------------
LEMMA WidthIsPositive == Width \in Nat /\ Width >= 1 /\ Space \in Nat /\ Space >= 1
BY FrontendAssumption

(***************************************************************************)
(* Each of the three operations of the command line keeps the offset in    *)
(* agreement with the length.                                              *)
(***************************************************************************)
LEMMA AppendKeepsOffset ==
  ASSUME LineInv, NEW c \in Chars, LineAppend(c)
  PROVE  LineInv'
<1>1. mContent' \in Seq(Chars) /\ Len(mContent') = Len(mContent) + 1 /\ Len(mContent) \in Nat
  BY DEF LineInv, LineAppend
<1> QED
  BY <1>1, WidthIsPositive DEF LineInv, LineAppend, OffsetAgrees

LEMMA PopBackKeepsOffset ==
  ASSUME LineInv, LinePopBack
  PROVE  LineInv'
<1>1. CASE mContent = <<>>
  BY <1>1 DEF LineInv, LinePopBack, lineVars, OffsetAgrees
<1>2. CASE mContent # <<>>
  <2>1. Len(mContent) \in Nat /\ Len(mContent) >= 1
    BY <1>2, EmptySeq DEF LineInv
  <2>2. mContent' \in Seq(Chars) /\ Len(mContent') = Len(mContent) - 1
    BY <1>2, <2>1, SubSeqProperties DEF LineInv, LinePopBack
  <2> QED
    BY <1>2, <2>1, <2>2, WidthIsPositive DEF LineInv, LinePopBack, OffsetAgrees
<1> QED
  BY <1>1, <1>2

LEMMA ClearKeepsOffset ==
  ASSUME LineClear
  PROVE  LineInv'
BY WidthIsPositive DEF LineInv, LineClear, OffsetAgrees

-----------------------------------------------------------------------------
(***************************************************************************)
(* What is drawn of the line is its end.                                   *)
(***************************************************************************)
LEMMA DrawnText ==
  ASSUME NEW content \in Seq(Chars)
  PROVE  LET hidden == Hidden(Len(content))
             text == DrawRange(content, hidden)
         IN /\ DOMAIN text = 1 .. Len(content) - hidden
            /\ \A i \in DOMAIN text : text[i] = content[i + hidden]
<1> DEFINE hidden == Hidden(Len(content))
           text == DrawRange(content, hidden)
           size == Len(content) - hidden
<1>1. Len(content) \in Nat
  OBVIOUS
<1>2. hidden \in 0 .. Len(content) /\ hidden \in Nat /\ size \in Nat
  BY <1>1, WidthIsPositive DEF Hidden
<1> HIDE DEF hidden
<1>3. text = SubSeq(content, hidden + 1, Len(content))
  BY <1>2 DEF DrawRange
<1>4. /\ text \in Seq(Chars) /\ Len(text) = size
      /\ \A i \in 1 .. size : text[i] = content[i + hidden]
  <2>1. \A i \in hidden + 1 .. Len(content) : content[i] \in Chars
    BY <1>1, <1>2, ElementOfSeq
  <2>2. Len(content) - (hidden + 1) + 1 = size
    BY <1>1, <1>2
  <2>3. IF hidden + 1 <= Len(content) THEN TRUE ELSE size = 0
    BY <1>1, <1>2
  <2>4. /\ text \in Seq(Chars)
        /\ Len(text) = IF hidden + 1 <= Len(content) THEN Len(content) - (hidden + 1) + 1 ELSE 0
        /\ \A i \in 1 .. Len(content) - (hidden + 1) + 1 : text[i] = content[(hidden + 1) + i - 1]
    BY <1>1, <1>2, <1>3, <2>1, SubSeqProperties
  <2>5. \A i \in 1 .. size : (hidden + 1) + i - 1 = i + hidden
    BY <1>2
  <2> QED
    BY <2>2, <2>3, <2>4, <2>5
<1>5. DOMAIN text = 1 .. size
  BY <1>4, LenProperties
<1> QED
  BY <1>4, <1>5 DEF hidden

(***************************************************************************)
(* Rendering the line gives the row that RowShowsLine asks for, if the     *)
(* last column, which nothing clears, was blank before.                    *)
(***************************************************************************)
LEMMA RenderedRow ==
  ASSUME NEW content \in Seq(Chars), NEW cells,
         DOMAIN cells = 1 .. Width, cells[Width] = Blank,
         NEW i \in 1 .. Width
  PROVE  LET hidden == Hidden(Len(content))
         IN LineRendered(cells, content, hidden)[i] =
              IF i + hidden <= Len(content) THEN content[i + hidden] ELSE Blank
<1> DEFINE hidden == Hidden(Len(content))
           text == DrawRange(content, hidden)
<1>1. Len(content) \in Nat /\ i \in Nat /\ 1 <= i /\ i <= Width
  BY WidthIsPositive
<1>2. /\ DOMAIN text = 1 .. Len(content) - hidden
      /\ \A j \in DOMAIN text : text[j] = content[j + hidden]
  BY DrawnText
<1>3. /\ Len(content) < Width => hidden = 0
      /\ ~(Len(content) < Width) => hidden = (Len(content) - Width) + 1
  BY DEF Hidden
<1>4. LineRendered(cells, content, hidden)[i] =
        IF i \in Len(content) + 1 .. Width - 1 THEN Blank
        ELSE IF i \in DOMAIN text THEN text[i] ELSE cells[i]
  BY DEF LineRendered, Written
<1> HIDE DEF hidden, text
<1>5. hidden \in Nat
  BY <1>1, <1>3, WidthIsPositive
<1>6. CASE i + hidden <= Len(content)
  <2>1. i \in DOMAIN text
    BY <1>1, <1>2, <1>5, <1>6
  <2>2. ~(i \in Len(content) + 1 .. Width - 1)
    BY <1>1, <1>5, <1>6, WidthIsPositive
  <2> QED
    BY <1>2, <1>4, <1>6, <2>1, <2>2 DEF hidden
<1>7. CASE ~(i + hidden <= Len(content))
  <2>1. i \notin DOMAIN text
    BY <1>1, <1>2, <1>5, <1>7
  <2>2. i \in Len(content) + 1 .. Width - 1 \/ i = Width
    BY <1>1, <1>3, <1>5, <1>7, WidthIsPositive
  <2> QED
    BY <1>4, <1>7, <2>1, <2>2 DEF hidden
<1> QED
  BY <1>6, <1>7

-----------------------------------------------------------------------------
(***************************************************************************)
(* A text box holds a text of exactly its width.                           *)
(***************************************************************************)
LEMMA FittedType ==
  ASSUME NEW v \in Seq(Symbols)
  PROVE  Fitted(v) \in Seq(Symbols) /\ Len(Fitted(v)) = Space
<1>1. Len(v) \in Nat
  OBVIOUS
<1>2. CASE Len(v) >= Space
  <2>1. \A i \in 1 .. Space : v[i] \in Symbols
    BY <1>1, <1>2, WidthIsPositive, ElementOfSeq
  <2>2. SubSeq(v, 1, Space) \in Seq(Symbols) /\ Len(SubSeq(v, 1, Space)) = Space
    BY <2>1, WidthIsPositive, SubSeqProperties
  <2> QED
    BY <1>2, <2>2 DEF Fitted
<1>3. CASE ~(Len(v) >= Space)
  <2>1. PICK n \in Nat : n = Space - Len(v)
    BY <1>1, <1>3, WidthIsPositive
  <2>2. Blank \in Symbols
    BY DEF Symbols
  <2>3. Blanks(n) \in Seq(Symbols) /\ Len(Blanks(n)) = n
    BY <2>1, <2>2, IsASeq DEF Blanks
  <2>4. /\ Blanks(n) \o v \in Seq(Symbols)
        /\ Len(Blanks(n) \o v) = n + Len(v)
    BY <2>3, ConcatProperties
  <2> QED
    BY <1>1, <1>3, <2>1, <2>4, WidthIsPositive DEF Fitted
<1> QED
  BY <1>2, <1>3

(***************************************************************************)
(* Such a text covers whatever its columns showed before.                  *)
(***************************************************************************)
LEMMA WrittenOver ==
  ASSUME NEW v \in Seq(Symbols), Len(v) \in {0, Space},
         NEW cells \in [1 .. Space -> Symbols]
  PROVE  /\ Written(cells, v) \in [1 .. Space -> Symbols]
         /\ Len(v) = Space => Written(cells, v) = Written(Blanks(Space), v)
<1>1. DOMAIN v = 1 .. Len(v) /\ \A i \in 1 .. Len(v) : v[i] \in Symbols
  BY LenProperties, ElementOfSeq
<1>2. Written(cells, v) \in [1 .. Space -> Symbols]
  BY <1>1 DEF Written
<1>3. ASSUME Len(v) = Space
      PROVE  Written(cells, v) = Written(Blanks(Space), v)
  BY <1>1, <1>3 DEF Written, Blanks
<1> QED
  BY <1>2, <1>3

-----------------------------------------------------------------------------
(***************************************************************************)
(* Rendering the command line on a row whose last column is blank.         *)
(***************************************************************************)
LEMMA RenderingShowsLine ==
  ASSUME LineInv', NEW cells \in [1 .. Width -> Symbols], cells[Width] = Blank,
         RenderLine(cells)
  PROVE  RowInv'
<1>1. mContent' \in Seq(Chars) /\ mContentOffset' = Hidden(Len(mContent'))
  <2>1. Len(mContent') \in Nat
    BY DEF LineInv
  <2> QED
    BY <2>1 DEF LineInv, OffsetAgrees, Hidden
<1>2. row' = LineRendered(cells, mContent', Hidden(Len(mContent')))
  BY <1>1 DEF RenderLine
<1>3. ASSUME NEW i \in 1 .. Width
      PROVE  row'[i] = IF i + Hidden(Len(mContent')) <= Len(mContent')
                         THEN mContent'[i + Hidden(Len(mContent'))] ELSE Blank
  BY <1>1, <1>2, RenderedRow
<1>4. RowShowsLine'
  BY <1>3 DEF RowShowsLine, Hidden
<1>5. row' \in [1 .. Width -> Symbols]
  <2>1. DOMAIN row' = 1 .. Width /\ row' = [i \in 1 .. Width |-> row'[i]]
    BY <1>2 DEF LineRendered
  <2>2. ASSUME NEW i \in 1 .. Width
        PROVE  row'[i] \in Symbols
    <3>1. CASE i + Hidden(Len(mContent')) <= Len(mContent')
      <4>1. i + Hidden(Len(mContent')) \in 1 .. Len(mContent')
        BY <1>1, <3>1, WidthIsPositive DEF Hidden
      <4>2. mContent'[i + Hidden(Len(mContent'))] \in Chars
        BY <1>1, <4>1, ElementOfSeq
      <4> QED
        BY <1>3, <3>1, <4>2 DEF Symbols
    <3>2. CASE ~(i + Hidden(Len(mContent')) <= Len(mContent'))
      BY <1>3, <3>2 DEF Symbols
    <3> QED
      BY <3>1, <3>2
  <2> QED
    BY <2>1, <2>2
<1> QED
  BY <1>4, <1>5 DEF RowInv

(***************************************************************************)
(* The last column of the row is always blank: it is where the cursor is.  *)
(***************************************************************************)
LEMMA LastColumnBlank ==
  ASSUME LineInv, RowInv
  PROVE  row[Width] = Blank
<1>1. Len(mContent) \in Nat
  BY DEF LineInv
<1>2. Width \in 1 .. Width
  BY WidthIsPositive
<1>3. LET hidden == IF Len(mContent) < Width THEN 0 ELSE (Len(mContent) - Width) + 1
      IN ~(Width + hidden <= Len(mContent))
  BY <1>1, WidthIsPositive
<1> QED
  BY <1>2, <1>3 DEF RowInv, RowShowsLine

(***************************************************************************)
(* A value that is set and drawn on the displayed page.                    *)
(***************************************************************************)
LEMMA FieldShown ==
  ASSUME ScreenInv, NEW f \in PageFields(mDisplayedPage), NEW v \in Seq(Symbols),
         mValue' = [mValue EXCEPT ![f] = Fitted(v)],
         screen' = Rendered(screen, mValue', {f}),
         UNCHANGED mDisplayedPage
  PROVE  ScreenInv'
<1>1. f \in Fields
  BY DEF ScreenInv, Fields
<1>2. Fitted(v) \in Seq(Symbols) /\ Len(Fitted(v)) = Space
  BY FittedType
<1>3. mValue' \in [Fields -> Seq(Symbols)] /\ mValue'[f] = Fitted(v)
  BY <1>1, <1>2 DEF ScreenInv
<1>4. \A g \in Fields : Len(mValue'[g]) \in {0, Space}
  BY <1>1, <1>2 DEF ScreenInv
<1>5. screen[f] \in [1 .. Space -> Symbols]
  BY <1>1 DEF ScreenInv
<1>6. /\ Written(screen[f], Fitted(v)) \in [1 .. Space -> Symbols]
      /\ Written(screen[f], Fitted(v)) = Written(Blanks(Space), Fitted(v))
  BY <1>2, <1>5, WrittenOver
<1>7. \A g \in Fields :
        screen'[g] = IF g = f THEN Written(screen[f], Fitted(v)) ELSE screen[g]
  BY <1>3 DEF Rendered
<1>8. screen' \in [Fields -> [1 .. Space -> Symbols]]
  <2>1. screen' = [g \in Fields |-> screen'[g]]
    BY DEF Rendered
  <2> QED
    BY <1>6, <1>7, <2>1 DEF ScreenInv
<1>9. ScreenIsPage'
  <2>1. ASSUME NEW g \in Fields, g # f
        PROVE  mValue'[g] = mValue[g]
    BY <2>1 DEF ScreenInv
  <2> QED
    BY <1>3, <1>6, <1>7, <2>1 DEF ScreenInv, ScreenIsPage
<1> QED
  BY <1>3, <1>4, <1>8, <1>9 DEF ScreenInv

(***************************************************************************)
(* A page that is drawn on a cleared window.                               *)
(***************************************************************************)
LEMMA PageShown ==
  ASSUME ScreenInv, NEW page \in Pages, NEW f \in Fields, NEW v \in Seq(Symbols),
         mValue' = [mValue EXCEPT ![f] = Fitted(v)],
         screen' = Rendered(BlankScreen, mValue', PageFields(page)),
         mDisplayedPage' = page
  PROVE  ScreenInv'
<1>1. Fitted(v) \in Seq(Symbols) /\ Len(Fitted(v)) = Space
  BY FittedType
<1>2. mValue' \in [Fields -> Seq(Symbols)]
  BY <1>1 DEF ScreenInv
<1>3. \A g \in Fields : Len(mValue'[g]) \in {0, Space}
  BY <1>1 DEF ScreenInv
<1>4. \A g \in Fields :
        screen'[g] = IF g \in PageFields(page)
                       THEN Written(Blanks(Space), mValue'[g]) ELSE Blanks(Space)
  BY DEF Rendered, BlankScreen
<1>5. Blanks(Space) \in [1 .. Space -> Symbols]
  BY DEF Blanks, Symbols
<1>6. screen' \in [Fields -> [1 .. Space -> Symbols]]
  <2>1. \A g \in Fields : Written(Blanks(Space), mValue'[g]) \in [1 .. Space -> Symbols]
    BY <1>2, <1>3, <1>5, WrittenOver
  <2>2. screen' = [g \in Fields |-> screen'[g]]
    BY DEF Rendered
  <2> QED
    BY <1>4, <1>5, <2>1, <2>2
<1> QED
  BY <1>2, <1>3, <1>4, <1>6 DEF ScreenInv, ScreenIsPage

-----------------------------------------------------------------------------
LEMMA TextTypes ==
  /\ \A v \in Texts : v \in Seq(Symbols)
  /\ TrueText \in Seq(Symbols) /\ FalseText \in Seq(Symbols)
BY FrontendAssumption

LEMMA BlankRow ==
  Blanks(Width) \in [1 .. Width -> Symbols] /\ Blanks(Width)[Width] = Blank
BY WidthIsPositive DEF Blanks, Symbols

LEMMA InitInterface == Init => InterfaceInv
<1> SUFFICES ASSUME Init
             PROVE  InterfaceInv
  OBVIOUS
<1>1. LineInv
  BY WidthIsPositive, EmptySeq DEF Init, LineInv, OffsetAgrees
<1>2. RowInv
  <2>1. row \in [1 .. Width -> Symbols]
    BY BlankRow DEF Init
  <2>2. \A i \in 1 .. Width : row[i] = Blank
    BY DEF Init, Blanks
  <2>3. Len(mContent) = 0
    BY EmptySeq DEF Init
  <2>4. \A i \in 1 .. Width : ~(i + 0 <= 0)
    BY WidthIsPositive
  <2> QED
    BY <2>1, <2>2, <2>3, <2>4, WidthIsPositive DEF RowInv, RowShowsLine
<1>3. ScreenInv
  <2>1. Blanks(Space) \in [1 .. Space -> Symbols]
    BY DEF Blanks, Symbols
  <2>2. <<>> \in Seq(Symbols) /\ Len(<<>>) = 0 /\ DOMAIN <<>> = {}
    BY EmptySeq
  <2>3. Written(Blanks(Space), <<>>) = Blanks(Space)
    BY <2>2 DEF Written, Blanks
  <2>4. mValue \in [Fields -> Seq(Symbols)] /\ \A f \in Fields : mValue[f] = <<>>
    BY <2>2 DEF Init
  <2>5. screen \in [Fields -> [1 .. Space -> Symbols]] /\ \A f \in Fields : screen[f] = Blanks(Space)
    BY <2>1 DEF Init, BlankScreen
  <2>6. ScreenIsPage
    BY <2>3, <2>4, <2>5 DEF ScreenIsPage
  <2> QED
    BY <2>2, <2>4, <2>5, <2>6 DEF Init, ScreenInv, Pages
<1>4. FlagsInv
  BY DEF Init, FlagsInv
<1> QED
  BY <1>1, <1>2, <1>3, <1>4 DEF InterfaceInv

(***************************************************************************)
(* What every round of live() does, and what leaves a part alone.          *)
(***************************************************************************)
LEMMA RoundShown ==
  ASSUME ScreenInv, Round
  PROVE  ScreenInv'
<1> DEFINE v == IF stop_flag THEN TrueText ELSE FalseText
           f == StoppedField(mDisplayedPage)
<1>1. v \in Seq(Symbols)
  BY TextTypes
<1>2. f \in PageFields(mDisplayedPage)
  BY DEF StoppedField, PageFields
<1>3. /\ mValue' = [mValue EXCEPT ![f] = Fitted(v)]
      /\ screen' = Rendered(screen, mValue', {f})
      /\ UNCHANGED mDisplayedPage
  BY DEF Round, UpdateStopped, DrawStopped
<1> HIDE DEF v, f
<1> QED
  BY <1>1, <1>2, <1>3, FieldShown

LEMMA LineKept ==
  ASSUME LineInv, UNCHANGED lineVars
  PROVE  LineInv'
BY DEF lineVars, LineInv, OffsetAgrees

LEMMA RowKept ==
  ASSUME RowInv, UNCHANGED lineVars, UNCHANGED row
  PROVE  RowInv'
BY DEF lineVars, RowInv, RowShowsLine

LEMMA ScreenKept ==
  ASSUME ScreenInv, UNCHANGED <<mDisplayedPage, mValue, screen>>
  PROVE  ScreenInv'
BY DEF ScreenInv, ScreenIsPage

(***************************************************************************)
(* Every step of live() and every message.                                 *)
(***************************************************************************)
LEMMA LiveStep ==
  ASSUME InterfaceInv, Live
  PROVE  InterfaceInv'
<1> USE DEF InterfaceInv
<1>1. row \in [1 .. Width -> Symbols] /\ row[Width] = Blank
  BY LastColumnBlank DEF RowInv
<1>2. CASE LiveWithoutKey
  BY <1>2, RoundShown, LineKept, RowKept DEF LiveWithoutKey, FlagsInv
<1>3. ASSUME NEW c \in Chars, LiveCharacter(c)
      PROVE  InterfaceInv'
  <2>1. LineInv'
    BY <1>3, AppendKeepsOffset DEF LiveCharacter
  <2> QED
    BY <1>1, <1>3, <2>1, RenderingShowsLine, RoundShown DEF LiveCharacter, FlagsInv
<1>4. CASE LiveBackspace
  <2>1. LineInv'
    BY <1>4, PopBackKeepsOffset DEF LiveBackspace
  <2> QED
    BY <1>1, <1>4, <2>1, RenderingShowsLine, RoundShown DEF LiveBackspace, FlagsInv
<1>5. CASE LiveNewline
  <2>1. LineInv'
    BY <1>5, ClearKeepsOffset DEF LiveNewline
  <2>2. FlagsInv'
    BY <1>5 DEF LiveNewline, FlagsInv
  <2> QED
    BY <1>1, <1>5, <2>1, <2>2, RenderingShowsLine, RoundShown DEF LiveNewline
<1>6. CASE LiveOtherKey
  <2>1. LineInv'
    BY <1>6, LineKept DEF LiveOtherKey
  <2> QED
    BY <1>1, <1>6, <2>1, RenderingShowsLine, RoundShown DEF LiveOtherKey, FlagsInv
<1>7. CASE LiveF9
  BY <1>7, RoundShown, LineKept, RowKept DEF LiveF9, FlagsInv
<1>8. ASSUME NEW page \in Pages, LiveF1F2(page)
      PROVE  InterfaceInv'
  <2> DEFINE v == IF stop_flag THEN TrueText ELSE FalseText
             f == StoppedField(mDisplayedPage)
  <2>1. LineInv'
    BY <1>8, LineKept DEF LiveF1F2
  <2>2. RowInv'
    BY <1>8, <2>1, BlankRow, RenderingShowsLine DEF LiveF1F2
  <2>3. v \in Seq(Symbols)
    BY TextTypes
  <2>4. f \in Fields
    BY DEF StoppedField, Fields, PageFields, Pages
  <2>5. /\ mValue' = [mValue EXCEPT ![f] = Fitted(v)]
        /\ screen' = Rendered(BlankScreen, mValue', PageFields(page))
        /\ mDisplayedPage' = page
    BY <1>8 DEF LiveF1F2, UpdateStopped
  <2> HIDE DEF v, f
  <2>6. ScreenInv'
    BY <2>3, <2>4, <2>5, PageShown
  <2> QED
    BY <1>8, <2>1, <2>2, <2>6 DEF LiveF1F2, FlagsInv
<1> QED
  BY <1>2, <1>3, <1>4, <1>5, <1>6, <1>7, <1>8 DEF Live

LEMMA ShowStep ==
  ASSUME InterfaceInv, NEW page \in Pages, NEW f \in PageFields(page), NEW v \in Texts,
         Show(f, page, v)
  PROVE  InterfaceInv'
<1>1. v \in Seq(Symbols)
  BY TextTypes
<1>2. ScreenInv'
  BY <1>1, FieldShown DEF InterfaceInv, Show
<1>3. LineInv' /\ RowInv'
  BY LineKept, RowKept DEF InterfaceInv, Show
<1> QED
  BY <1>2, <1>3 DEF InterfaceInv, Show, FlagsInv

LEMMA StepInterface == InterfaceInv /\ [Next]_vars => InterfaceInv'
<1> SUFFICES ASSUME InterfaceInv, [Next]_vars
             PROVE  InterfaceInv'
  OBVIOUS
<1>1. CASE Live
  BY <1>1, LiveStep
<1>2. CASE StopElsewhere
  BY <1>2, LineKept, RowKept, ScreenKept DEF StopElsewhere, InterfaceInv, FlagsInv
<1>3. ASSUME NEW v \in Texts, UpdateSensor(v) \/ Swallow(v)
      PROVE  InterfaceInv'
  <2>1. "sensor" \in PageFields("p1") /\ "status" \in PageFields("stats") /\ Pages = {"p1", "stats"}
    BY DEF PageFields, Pages
  <2> QED
    BY <1>3, <2>1, ShowStep DEF UpdateSensor, Swallow
<1>4. CASE UNCHANGED vars
  BY <1>4, LineKept, RowKept, ScreenKept DEF vars, InterfaceInv, FlagsInv
<1> QED
  BY <1>1, <1>2, <1>3, <1>4 DEF Next, Ended

-----------------------------------------------------------------------------
LEMMA AlwaysInterfaceInv == Spec => []InterfaceInv
BY InitInterface, StepInterface, PTL DEF Spec

(***************************************************************************)
(* The variables of the interface keep their types.                        *)
(***************************************************************************)
THEOREM InterfaceTypeCorrect == Spec => []TypeOK
<1>1. InterfaceInv => TypeOK
  <2> SUFFICES ASSUME InterfaceInv
               PROVE  TypeOK
    OBVIOUS
  <2>1. mContentOffset \in Int
    <3>1. Len(mContent) \in Nat
      BY DEF InterfaceInv, LineInv
    <3> QED
      BY <3>1, WidthIsPositive DEF InterfaceInv, LineInv, OffsetAgrees
  <2> QED
    BY <2>1 DEF InterfaceInv, LineInv, RowInv, ScreenInv, FlagsInv, TypeOK
<1> QED
  BY <1>1, AlwaysInterfaceInv, PTL

(***************************************************************************)
(* The offset into the command line is the number of hidden characters, in *)
(* a window of every width: substr() never throws.                         *)
(***************************************************************************)
THEOREM OffsetIsRight == Spec => []OffsetAgrees
<1>1. InterfaceInv => OffsetAgrees
  BY DEF InterfaceInv, LineInv
<1> QED
  BY <1>1, AlwaysInterfaceInv, PTL

(***************************************************************************)
(* The command line on the terminal is the end of what was typed.          *)
(***************************************************************************)
THEOREM LineIsShown == Spec => []RowShowsLine
<1>1. InterfaceInv => RowShowsLine
  BY DEF InterfaceInv, RowInv
<1> QED
  BY <1>1, AlwaysInterfaceInv, PTL

(***************************************************************************)
(* The terminal shows the values of the displayed page and no remnants.    *)
(***************************************************************************)
THEOREM PageIsShown == Spec => []ScreenIsPage
<1>1. InterfaceInv => ScreenIsPage
  BY DEF InterfaceInv, ScreenInv
<1> QED
  BY <1>1, AlwaysInterfaceInv, PTL
=============================================================================
