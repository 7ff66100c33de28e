----------------------------- MODULE FlantermFb -----------------------------
(***************************************************************************)
(* The framebuffer side of the terminal (support/flanterm-fb.c).  The      *)
(* terminal writes characters to a queue of changes over a grid of cells,  *)
(* and a flush plots the changes on the screen; a cell whose colours stay  *)
(* the same is plotted only where old and new glyph differ, and the cursor *)
(* is shown by plotting its cell with the colours exchanged.               *)
(*                                                                         *)
(* A context t is one record for flanterm_context and flanterm_fb_context. *)
(* The queue is the function from the cells whose map entry is set to the  *)
(* character queued for them: a cell has one item at most, and the order   *)
(* of items of different cells does not matter.                            *)
(***************************************************************************)
EXTENDS Integers, FiniteSets, Sequences, SequencesExt

CONSTANTS Cols,       \* columns of cells
          Rows,       \* rows of cells
          FontBits    \* of a character, the columns of its glyph that are drawn

ASSUME ScreenAssumption == Cols \in Nat \ {0, 1} /\ Rows \in Nat \ {0, 1}

\* Cells are named <<x, y>>.
Cells == (0 .. Cols - 1) \X (0 .. Rows - 1)

\* Columns of a glyph that stand for all: two of the bits of the font and the ninth.
Pixels == {1, 8, 9}

\* Columns drawn of a glyph: the ninth repeats the eighth for line drawing.
Glyph(c) == FontBits[c] \cup
            {9 : i \in {j \in FontBits[c] : j = 8 /\ c >= 192 /\ c <= 223}}

-----------------------------------------------------------------------------
(* Colours.  The eight colours, their bright variants, those given as RGB   *)
(* or by an index from 16, and the one that shows the canvas.              *)

Dim(n) == <<"dim", n>>
Bright(n) == <<"bright", n>>
Rgb(v) == <<"rgb", v>>
Indexed(n) == <<"indexed", n>>
Canvas == <<"canvas", 0>>
DefaultFg == Dim(7)
DefaultBg == Dim(0)
DefaultFgBright == Bright(7)
DefaultBgBright == Bright(0)

Empty(t) == [c |-> 32, fg |-> t.text_fg, bg |-> t.text_bg]

-----------------------------------------------------------------------------
(* Plotting                                                                *)

Shown(colour) == IF colour = Canvas THEN DefaultBg ELSE colour

Plotted(ch) == [p \in Pixels |-> Shown(IF p \in Glyph(ch.c) THEN ch.fg ELSE ch.bg)]

\* What is on the screen after only the pixels that differ were plotted.
PlottedFast(old, ch, shown) ==
    [p \in Pixels |-> IF (p \in Glyph(old.c)) = (p \in Glyph(ch.c))
                      THEN shown[p] ELSE Plotted(ch)[p]]

PlotChar(t, ch, cell) ==
    IF cell \in Cells THEN [t EXCEPT !.framebuffer[cell] = Plotted(ch)] ELSE t

-----------------------------------------------------------------------------
(* The queue                                                               *)

NoChanges == [cell \in {} |-> 0]

\* The characters of all cells as the terminal sees them.
Content(t) == t.queue @@ t.grid

\* Queue the characters of chars, a function on cells.
PushToQueue(t, chars) ==
    LET news == {cell \in DOMAIN chars \cap Cells :
                     cell \in DOMAIN t.queue \/ t.grid[cell] # chars[cell]}
    IN [t EXCEPT !.queue = [cell \in news |-> chars[cell]] @@ @]

RevScroll(t) ==
    LET top == t.scroll_top_margin
        kept == {cell \in Cells : cell[2] > top /\ cell[2] < t.scroll_bottom_margin}
        first == {cell \in Cells : cell[2] = top}
    IN PushToQueue(t, [cell \in first |-> Empty(t)]
                      @@ [cell \in kept |-> Content(t)[<<cell[1], cell[2] - 1>>]])

Scroll(t) ==
    LET bottom == t.scroll_bottom_margin - 1
        kept == {cell \in Cells : cell[2] >= t.scroll_top_margin /\ cell[2] < bottom}
        last == {cell \in Cells : cell[2] = bottom}
    IN PushToQueue(t, [cell \in last |-> Empty(t)]
                      @@ [cell \in kept |-> Content(t)[<<cell[1], cell[2] + 1>>]])

Clear(t, move) ==
    LET cleared == PushToQueue(t, [cell \in Cells |-> Empty(t)])
    IN IF move THEN [cleared EXCEPT !.cursor_x = 0, !.cursor_y = 0] ELSE cleared

\* Slip: the character is taken from the grid although a newer one is queued.
MoveFromGrid(t, new_x, new_y, old_x, old_y) ==
    IF <<old_x, old_y>> \in Cells /\ <<new_x, new_y>> \in Cells
    THEN PushToQueue(t, <<new_x, new_y>> :> t.grid[<<old_x, old_y>>])
    ELSE t

MoveCharacter(t, new_x, new_y, old_x, old_y) ==
    IF <<old_x, old_y>> \in Cells /\ <<new_x, new_y>> \in Cells
    THEN PushToQueue(t, <<new_x, new_y>> :> Content(t)[<<old_x, old_y>>])
    ELSE t

-----------------------------------------------------------------------------
(* Cursor.  A negative argument stands for a size_t that wrapped around.    *)

Clamp(v, limit) == IF v < 0 THEN 0 ELSE IF v >= limit THEN limit - 1 ELSE v

SetCursorPos(t, x, y) == [t EXCEPT !.cursor_x = Clamp(x, Cols), !.cursor_y = Clamp(y, Rows)]

CursorX(t) == IF t.cursor_x >= Cols THEN Cols - 1 ELSE t.cursor_x
CursorY(t) == IF t.cursor_y >= Rows THEN Rows - 1 ELSE t.cursor_y

\* A character past the last column goes to the next line, if there is one or
\* it can be scrolled in.  The row is compared with the number of columns.
NextLine(t) ==
    LET y == t.cursor_y + 1
        scrolled == IF y = t.scroll_bottom_margin
                    THEN Scroll([t EXCEPT !.cursor_x = 0])
                    ELSE [t EXCEPT !.cursor_x = 0, !.cursor_y = y]
    IN [scrolled EXCEPT !.cursor_y = IF @ >= Cols THEN Cols - 1 ELSE @]

RawPutchar(t, c) ==
    LET wraps == /\ t.cursor_x >= Cols
                 /\ t.cursor_y < t.scroll_bottom_margin - 1 \/ t.scroll_enabled
        at == IF wraps THEN NextLine(t) ELSE t
        pushed == PushToQueue(at, <<at.cursor_x, at.cursor_y>> :> [Empty(at) EXCEPT !.c = c])
    IN [pushed EXCEPT !.cursor_x = @ + 1]

\* n calls of raw_putchar with a blank.
PutBlanks(t, n) == FoldLeft(RawPutchar, t, [i \in 1 .. n |-> 32])

SwapPalette(t) == [t EXCEPT !.text_bg = t.text_fg, !.text_fg = t.text_bg]

FbSaveState(t) ==
    [t EXCEPT !.saved_state.text_fg = t.text_fg, !.saved_state.text_bg = t.text_bg,
              !.saved_state.cursor_x = t.cursor_x, !.saved_state.cursor_y = t.cursor_y]

FbRestoreState(t) ==
    [t EXCEPT !.text_fg = t.saved_state.text_fg, !.text_bg = t.saved_state.text_bg,
              !.cursor_x = t.saved_state.cursor_x, !.cursor_y = t.saved_state.cursor_y]

-----------------------------------------------------------------------------
(* Flush                                                                   *)

\* The cursor's cell is plotted with its colours exchanged and leaves the queue.
DrawCursor(t) ==
    LET cell == <<t.cursor_x, t.cursor_y>>
        ch == Content(t)[cell]
        plotted == PlotChar(t, [ch EXCEPT !.fg = ch.bg, !.bg = ch.fg], cell)
    IN IF cell \notin Cells THEN t
       ELSE [plotted EXCEPT !.grid[cell] = ch,
                            !.queue = [i \in DOMAIN @ \ {cell} |-> @[i]]]

PlotQueue(t) ==
    LET Plot(cell) == LET ch == t.queue[cell]
                          old == t.grid[cell]
                      IN IF ch.bg = old.bg /\ ch.fg = old.fg
                         THEN PlottedFast(old, ch, t.framebuffer[cell]) ELSE Plotted(ch)
    IN [t EXCEPT !.framebuffer = [cell \in DOMAIN t.queue |-> Plot(cell)] @@ @,
                 !.grid = t.queue @@ @,
                 !.queue = NoChanges]

\* Slip: the old cell of a cursor that was switched off is not plotted again.
FlushWithGhost(t) ==
    LET plotted == PlotQueue(IF t.cursor_enabled THEN DrawCursor(t) ELSE t)
        old == <<t.old_cursor_x, t.old_cursor_y>>
        stale == old # <<t.cursor_x, t.cursor_y>>
        redrawn == IF stale /\ old \in Cells THEN PlotChar(plotted, plotted.grid[old], old)
                   ELSE plotted
    IN [redrawn EXCEPT !.old_cursor_x = t.cursor_x, !.old_cursor_y = t.cursor_y]

DoubleBufferFlush(t) ==
    LET plotted == PlotQueue(IF t.cursor_enabled THEN DrawCursor(t) ELSE t)
        old == <<t.old_cursor_x, t.old_cursor_y>>
        stale == old # <<t.cursor_x, t.cursor_y>> \/ ~t.cursor_enabled
        redrawn == IF stale /\ old \in Cells THEN PlotChar(plotted, plotted.grid[old], old)
                   ELSE plotted
    IN [redrawn EXCEPT !.old_cursor_x = t.cursor_x, !.old_cursor_y = t.cursor_y]

FullRefresh(t) ==
    LET drawn == [t EXCEPT !.framebuffer = [cell \in Cells |-> Plotted(t.grid[cell])]]
    IN IF t.cursor_enabled THEN DrawCursor(drawn) ELSE drawn

=============================================================================
