------------------------------ MODULE Flanterm ------------------------------
(***************************************************************************)
(* The terminal emulation (support/flanterm.c): what one byte does to the  *)
(* context, by way of the escape and control sequence parser, the          *)
(* character sets, UTF-8 and the renditions.  Bytes are numbers.  The      *)
(* kernel sets no callback, so what would only be reported to one is left  *)
(* out.                                                                    *)
(***************************************************************************)
EXTENDS FlantermFb

CONSTANTS MaxEscValues,   \* FLANTERM_MAX_ESC_VALUES
          TabSize,        \* tab_size
          Cp437,          \* glyphs of code points, a function
          Combining       \* intervals of code points without width, a sequence

Ctl == [BEL |-> 7, BS |-> 8, TAB |-> 9, LF |-> 10, VT |-> 11, FF |-> 12, CR |-> 13, SO |-> 14,
        SI |-> 15, CAN |-> 24, SUB |-> 26, ESC |-> 27, Semicolon |-> 59, Question |-> 63,
        LeftBracket |-> 91, Backslash |-> 92, RightBracket |-> 93, DEL |-> 127, CSI |-> 155]
Digit(c) == c - 48
IsDigit(c) == c \in 48 .. 57

-----------------------------------------------------------------------------
(* SGR: renditions                                                         *)

NoColour == -1

\* The colours of the text and of its background change sides in reverse video.
SetPrimary(t, colour) ==
    IF t.reverse_video THEN [t EXCEPT !.text_bg = colour] ELSE [t EXCEPT !.text_fg = colour]
SetSecondary(t, colour) ==
    IF t.reverse_video THEN [t EXCEPT !.text_fg = colour] ELSE [t EXCEPT !.text_bg = colour]

SetReverse(t, on) ==
    IF t.reverse_video # on THEN SwapPalette([t EXCEPT !.reverse_video = on]) ELSE t

\* 0, or no parameter.
SgrReset(t) ==
    [SetReverse(t, FALSE) EXCEPT !.bold = FALSE, !.bg_bold = FALSE,
                                 !.current_primary = NoColour, !.current_bg = NoColour,
                                 !.text_bg = Canvas, !.text_fg = DefaultFg]

\* 1 and 22.  A default colour is that of the side it is shown on.
SgrBold(t, on) ==
    LET fg == IF on THEN DefaultFgBright ELSE DefaultFg
        bg == IF on THEN DefaultBgBright ELSE Canvas
        hue == t.current_primary
        colour == IF hue = NoColour THEN IF t.reverse_video THEN bg ELSE fg
                  ELSE IF on THEN Bright(hue) ELSE Dim(hue)
    IN SetPrimary([t EXCEPT !.bold = on], colour)

\* 5 and 25.
SgrBgBold(t, on) ==
    LET fg == IF on THEN DefaultFgBright ELSE DefaultFg
        bg == IF on THEN DefaultBgBright ELSE Canvas
        hue == t.current_bg
        colour == IF hue = NoColour THEN IF t.reverse_video THEN fg ELSE bg
                  ELSE IF on THEN Bright(hue) ELSE Dim(hue)
    IN SetSecondary([t EXCEPT !.bg_bold = on], colour)

\* 30 to 37 and 90 to 97.
SgrForeground(t, hue, bright) ==
    SetPrimary([t EXCEPT !.current_primary = hue],
               IF bright \/ t.bold THEN Bright(hue) ELSE Dim(hue))

\* Slip: the bright colour follows the boldness of the other side.
SgrBackgroundByText(t, hue, bright) ==
    SetSecondary([t EXCEPT !.current_bg = hue],
                 IF bright \/ t.bold THEN Bright(hue) ELSE Dim(hue))

\* 40 to 47 and 100 to 107.
SgrBackground(t, hue, bright) ==
    SetSecondary([t EXCEPT !.current_bg = hue],
                 IF bright \/ t.bg_bold THEN Bright(hue) ELSE Dim(hue))

SgrDefaultFg(t) ==
    SetPrimary([t EXCEPT !.current_primary = NoColour],
               IF t.bold THEN DefaultFgBright ELSE DefaultFg)

SgrDefaultBg(t) ==
    SetSecondary([t EXCEPT !.current_bg = NoColour],
                 IF t.bg_bold THEN DefaultBgBright ELSE Canvas)

\* What follows 38 or 48: a colour for the text or for its background, if the
\* parameters name one completely, and then the parameters left.
Extended(t, text, vs) ==
    LET n == Len(vs)
        Set(colour) == IF text THEN [t EXCEPT !.text_fg = colour] ELSE [t EXCEPT !.text_bg = colour]
        Colour256(k) == IF k < 8 THEN Dim(k) ELSE IF k < 16 THEN Bright(k - 8) ELSE Indexed(k)
    IN CASE n >= 4 /\ vs[1] = 2 -> [t |-> Set(Rgb(65536 * vs[2] + 256 * vs[3] + vs[4])),
                                    rest |-> SubSeq(vs, 5, n)]
         [] n >= 2 /\ vs[1] = 5 -> [t |-> Set(Colour256(vs[2])), rest |-> SubSeq(vs, 3, n)]
         [] n >= 1 /\ vs[1] \notin {2, 5} -> [t |-> t, rest |-> Tail(vs)]
         [] OTHER -> [t |-> t, rest |-> <<>>]

SgrOne(t, v) ==
    CASE v = 0 -> SgrReset(t)
      [] v \in {1, 22} -> SgrBold(t, v = 1)
      [] v \in {5, 25} -> SgrBgBold(t, v = 5)
      [] v \in 30 .. 37 -> SgrForeground(t, v - 30, FALSE)
      [] v \in 40 .. 47 -> SgrBackground(t, v - 40, FALSE)
      [] v \in 90 .. 97 -> SgrForeground(t, v - 90, TRUE)
      [] v \in 100 .. 107 -> SgrBackground(t, v - 100, TRUE)
      [] v = 39 -> SgrDefaultFg(t)
      [] v = 49 -> SgrDefaultBg(t)
      [] v \in {7, 27} -> SetReverse(t, v = 7)
      [] OTHER -> t

RECURSIVE SgrAll(_, _)
SgrAll(t, vs) ==
    CASE vs = <<>> -> t
      [] vs # <<>> /\ Head(vs) \in {38, 48} ->
           LET ext == Extended(t, Head(vs) = 38, Tail(vs)) IN SgrAll(ext.t, ext.rest)
      [] OTHER -> SgrAll(SgrOne(t, Head(vs)), Tail(vs))

Sgr(t, vs) == IF vs = <<>> THEN SgrReset(t) ELSE SgrAll(t, vs)

-----------------------------------------------------------------------------
(* Control sequences: what the final byte does.  The values are those that  *)
(* were given; the missing ones have a default.                            *)

\* Final bytes, by the names of ECMA-48.
Fin == [ICH |-> 64, CUU |-> 65, CUD |-> 66, CUF |-> 67, CUB |-> 68, CNL |-> 69, CPL |-> 70,
        CHA |-> 71, CUP |-> 72, ED |-> 74, EL |-> 75, IL |-> 76, DL |-> 77, DCH |-> 80, ECH |-> 88,
        HPA |-> 96, HPR |-> 97, VPA |-> 100, VPR |-> 101, HVP |-> 102, SM |-> 104, RM |-> 108,
        SGR |-> 109, LEDS |-> 113, STBM |-> 114, SCP |-> 115, RCP |-> 117]

Value(t, i, c) ==
    IF i <= Len(t.esc_values) THEN t.esc_values[i]
    ELSE IF c \in {Fin.ED, Fin.EL, Fin.LEDS} THEN 0 ELSE 1

Motions == {Fin.CUU, Fin.CPL, Fin.CUD, Fin.VPR, Fin.CNL, Fin.CUF, Fin.HPR, Fin.CUB, Fin.VPA,
            Fin.CHA, Fin.HPA, Fin.CUP, Fin.HVP, Fin.SCP, Fin.RCP}

\* Moving up or down stops at the margin that is passed or stood on.
CursorUp(t, x, n) ==
    LET y == CursorY(t)
        dest == IF n > y THEN 0 ELSE y - n
        meets == {t.scroll_top_margin, t.scroll_bottom_margin} \cap (dest .. y) # {}
    IN SetCursorPos(t, x, IF meets /\ dest < t.scroll_top_margin
                          THEN t.scroll_top_margin ELSE dest)

CursorDown(t, x, n) ==
    LET y == CursorY(t)
        dest == IF y + n > Rows - 1 THEN Rows - 1 ELSE y + n
        meets == {t.scroll_top_margin, t.scroll_bottom_margin} \cap (y .. dest) # {}
    IN SetCursorPos(t, x, IF meets /\ dest >= t.scroll_bottom_margin
                          THEN t.scroll_bottom_margin - 1 ELSE dest)

\* A column or row counted from 1; 0 wraps around and is the last one.
Absolute(v, limit) == IF v = 0 \/ v > limit THEN limit - 1 ELSE v - 1

\* A column or row of H and f, where 0 counts as 1.
Position(v, limit) == IF v = 0 THEN 0 ELSE IF v > limit THEN limit - 1 ELSE v - 1

MoveCursor(t, c, n, m) ==
    LET x == CursorX(t)
        y == CursorY(t)
    IN CASE c = Fin.CUU -> CursorUp(t, x, n)
         [] c = Fin.CPL -> CursorUp(t, 0, n)
         [] c \in {Fin.CUD, Fin.VPR} -> CursorDown(t, x, n)
         [] c = Fin.CNL -> CursorDown(t, 0, n)
         [] c \in {Fin.CUF, Fin.HPR} -> SetCursorPos(t, IF x + n > Cols - 1 THEN Cols - 1 ELSE x + n, y)
         [] c = Fin.CUB -> SetCursorPos(t, IF n > x THEN 0 ELSE x - n, y)
         [] c = Fin.VPA -> SetCursorPos(t, x, Absolute(n, Rows))
         [] c \in {Fin.CHA, Fin.HPA} -> SetCursorPos(t, Absolute(n, Cols), y)
         [] c \in {Fin.CUP, Fin.HVP} -> SetCursorPos(t, Position(m, Cols), Position(n, Rows))
         [] c = Fin.SCP -> [t EXCEPT !.saved_cursor_x = x, !.saved_cursor_y = y]
         [] c = Fin.RCP -> SetCursorPos(t, t.saved_cursor_x, t.saved_cursor_y)

EraseDisplay(t, n) ==
    LET x == CursorX(t)
        y == CursorY(t)
    IN CASE n = 0 -> SetCursorPos(PutBlanks(t, (Rows - (y + 1)) * Cols + Cols - x), x, y)
         [] n = 1 -> SetCursorPos(PutBlanks(SetCursorPos(t, 0, 0), y * Cols + x + 1), x, y)
         [] n \in {2, 3} -> Clear(t, FALSE)
         [] OTHER -> t

EraseLine(t, n) ==
    LET x == CursorX(t)
        y == CursorY(t)
    IN CASE n = 0 -> SetCursorPos(PutBlanks(t, Cols - x), x, y)
         [] n = 1 -> PutBlanks(SetCursorPos(t, 0, y), x)
         [] n = 2 -> SetCursorPos(PutBlanks(SetCursorPos(t, 0, y), Cols), x, y)
         [] OTHER -> t

\* The columns from last to first, in falling order.
Falling(last, first) ==
    IF last < first THEN <<>> ELSE [k \in 1 .. last - first + 1 |-> last + 1 - k]

InsertCharacters(t, n) ==
    LET x == CursorX(t)
        y == CursorY(t)
        Move(u, i) == RawPutchar(SetCursorPos(MoveCharacter(u, i + n, y, i, y), i, y), 32)
    IN SetCursorPos(FoldLeft(Move, t, Falling(Cols - 1, x)), x, y)

EraseCharacters(t, n, x, y) == SetCursorPos(PutBlanks(t, n), x, y)

DeleteCharacters(t, n) ==
    LET x == CursorX(t)
        y == CursorY(t)
        Move(u, i) == MoveCharacter(u, i - n, y, i, y)
        moved == FoldLeft(Move, t, Reverse(Falling(Cols - 1, x + n)))
    IN EraseCharacters(SetCursorPos(moved, Cols - n, y), n, x, y)

ScrollTimes(t, n) == FoldLeft(LAMBDA u, i : Scroll(u), t, [i \in 1 .. n |-> i])

\* Lines are inserted by scrolling down what is below the cursor's line.
InsertLines(t, n) ==
    LET from == [t EXCEPT !.scroll_top_margin = CursorY(t)]
        inserted == FoldLeft(LAMBDA u, i : RevScroll(u), from, [i \in 1 .. n |-> i])
    IN [inserted EXCEPT !.scroll_top_margin = t.scroll_top_margin]

SetMargins(t, n, m) ==
    LET given == Len(t.esc_values)
        top == IF given > 0 /\ n > 0 THEN n - 1 ELSE 0
        bottom == IF given > 1 THEN IF m = 0 THEN 1 ELSE m ELSE Rows
        valid == top < Rows /\ bottom <= Rows /\ top < bottom - 1
    IN SetCursorPos([t EXCEPT !.scroll_top_margin = IF valid THEN top ELSE 0,
                              !.scroll_bottom_margin = IF valid THEN bottom ELSE Rows], 0, 0)

ModeToggle(t, c) ==
    IF t.esc_values # <<>> /\ t.esc_values[1] = 4 THEN [t EXCEPT !.insert_mode = (c = Fin.SM)] ELSE t

DecPrivate(t, c) ==
    LET done == [t EXCEPT !.dec_private = FALSE]
    IN IF c \in {Fin.SM, Fin.RM} /\ t.esc_values # <<>> /\ t.esc_values[1] = 25
       THEN [done EXCEPT !.cursor_enabled = (c = Fin.SM)] ELSE done

Execute(t, c) ==
    LET n == Value(t, 1, c)
        m == Value(t, 2, c)
    IN CASE c \in Motions -> MoveCursor(t, c, n, m)
         [] c = Fin.ED -> EraseDisplay(t, n)
         [] c = Fin.EL -> EraseLine(t, n)
         [] c = Fin.ICH -> InsertCharacters(t, n)
         [] c = Fin.DCH -> DeleteCharacters(t, n)
         [] c = Fin.ECH -> EraseCharacters(t, n, CursorX(t), CursorY(t))
         [] c = Fin.DL -> ScrollTimes(t, n)
         [] c = Fin.IL -> InsertLines(t, n)
         [] c = Fin.SGR -> Sgr(t, t.esc_values)
         [] c = Fin.STBM -> SetMargins(t, n, m)
         [] c \in {Fin.SM, Fin.RM} -> ModeToggle(t, c)
         [] OTHER -> t

-----------------------------------------------------------------------------
(* The parser                                                              *)

EndSequence(t) ==
    [t EXCEPT !.control_sequence = FALSE, !.escape = FALSE, !.esc_values = <<>>, !.value = 0]

\* A digit belongs to the value that is being read, which counts once it ends;
\* values past the last are ignored.  The values are not looked at after the
\* sequence: forgetting them then keeps the states few.
ControlSequenceParse(t, c) ==
    LET full == Len(t.esc_values) = MaxEscValues
        ended == IF t.rrr THEN [t EXCEPT !.esc_values = Append(@, t.value), !.value = 0,
                                         !.rrr = FALSE] ELSE t
        private == DecPrivate(ended, c)
        done == Execute([ended EXCEPT !.scroll_enabled = FALSE], c)
    IN CASE t.escape_offset = 2 /\ c = Ctl.LeftBracket ->
              EndSequence([t EXCEPT !.discard_next = TRUE])
         [] t.escape_offset = 2 /\ c = Ctl.Question -> [t EXCEPT !.dec_private = TRUE]
         [] IsDigit(c) ->
              IF full THEN t ELSE [t EXCEPT !.rrr = TRUE, !.value = @ * 10 + Digit(c)]
         [] c = Ctl.Semicolon ->
              IF t.rrr THEN ended ELSE IF full THEN t ELSE [t EXCEPT !.esc_values = Append(@, 0)]
         [] OTHER -> EndSequence(IF t.dec_private THEN private
                                 ELSE [done EXCEPT !.scroll_enabled = t.scroll_enabled])

OscParse(t, c) ==
    IF c = Ctl.BEL \/ (t.osc_escape /\ c = Ctl.Backslash)
    THEN [t EXCEPT !.osc_escape = FALSE, !.osc = FALSE, !.escape = FALSE]
    ELSE [t EXCEPT !.osc_escape = (c = Ctl.ESC)]

SaveState(t) ==
    [FbSaveState(t) EXCEPT !.saved_state.bold = t.bold, !.saved_state.bg_bold = t.bg_bold,
                           !.saved_state.reverse_video = t.reverse_video,
                           !.saved_state.current_charset = t.current_charset,
                           !.saved_state.current_primary = t.current_primary,
                           !.saved_state.current_bg = t.current_bg]

RestoreState(t) ==
    FbRestoreState([t EXCEPT !.bold = t.saved_state.bold, !.bg_bold = t.saved_state.bg_bold,
                             !.reverse_video = t.saved_state.reverse_video,
                             !.current_charset = t.saved_state.current_charset,
                             !.current_primary = t.saved_state.current_primary,
                             !.current_bg = t.saved_state.current_bg])

\* flanterm_context_reinit.  The colours of the text, the queue and the state
\* saved with ESC 7 are not touched.
Reinit(t) ==
    [t EXCEPT !.cursor_enabled = TRUE, !.scroll_enabled = TRUE, !.control_sequence = FALSE,
              !.csi = FALSE, !.escape = FALSE, !.osc = FALSE, !.osc_escape = FALSE,
              !.rrr = FALSE, !.discard_next = FALSE, !.bold = FALSE, !.bg_bold = FALSE,
              !.reverse_video = FALSE, !.dec_private = FALSE, !.insert_mode = FALSE,
              !.unicode_remaining = 0, !.g_select = 0, !.charsets = <<"default", "dec">>,
              !.current_charset = 0, !.escape_offset = 0, !.esc_values = <<>>,
              !.saved_cursor_x = 0, !.saved_cursor_y = 0,
              !.current_primary = NoColour, !.current_bg = NoColour,
              !.scroll_top_margin = 0, !.scroll_bottom_margin = Rows]

\* One line down, scrolling at the bottom margin, and one line up.
LineDown(t, x, y) ==
    IF y = t.scroll_bottom_margin - 1 THEN SetCursorPos(Scroll(t), x, y)
    ELSE SetCursorPos(t, x, y + 1)

ReverseLineFeed(t, y) ==
    IF y = t.scroll_top_margin THEN SetCursorPos(RevScroll(t), 0, y)
    ELSE SetCursorPos(t, 0, y - 1)

\* The byte after an escape: what it does, for 7 8 c D E M ( and ).
EscapeCode(t, c) ==
    LET x == CursorX(t)
        y == CursorY(t)
    IN CASE c = 55 -> SaveState(t)
         [] c = 56 -> RestoreState(t)
         [] c = 99 -> Clear(Reinit(t), TRUE)
         [] c = 68 -> LineDown(t, x, y)
         [] c = 69 -> LineDown(t, 0, y)
         [] c = 77 -> ReverseLineFeed(t, y)
         [] c \in {40, 41} -> [t EXCEPT !.g_select = c - 39]
         [] OTHER -> t

\* The byte that follows a CSI of one byte only begins the sequence.  Of
\* escape_offset it matters whether it is 2, so it is counted up to 3.
EscapeParse(u, c) ==
    LET t == [u EXCEPT !.escape_offset = IF @ < 3 THEN @ + 1 ELSE 3]
    IN CASE t.osc -> OscParse(t, c)
         [] ~t.osc /\ t.control_sequence -> ControlSequenceParse(t, c)
         [] ~t.osc /\ ~t.control_sequence /\ (t.csi \/ c = Ctl.LeftBracket) ->
              [t EXCEPT !.csi = FALSE, !.esc_values = <<>>, !.value = 0, !.rrr = FALSE,
                        !.control_sequence = TRUE]
         [] ~t.osc /\ ~t.control_sequence /\ ~t.csi /\ c = Ctl.RightBracket ->
              [t EXCEPT !.osc_escape = FALSE, !.osc = TRUE]
         [] OTHER -> [EscapeCode(t, c) EXCEPT !.escape = FALSE]

-----------------------------------------------------------------------------
(* Characters                                                              *)

\* Glyphs of the DEC special graphics.
DecSpecial ==
    96 :> 4 @@ 48 :> 219 @@ 45 :> 24 @@ 44 :> 27 @@ 46 :> 25 @@ 97 :> 177 @@ 102 :> 248
    @@ 103 :> 241 @@ 104 :> 176 @@ 106 :> 217 @@ 107 :> 191 @@ 108 :> 218 @@ 109 :> 192
    @@ 110 :> 197 @@ 113 :> 196 @@ 115 :> 95 @@ 116 :> 195 @@ 117 :> 180 @@ 118 :> 193
    @@ 119 :> 194 @@ 120 :> 179 @@ 121 :> 243 @@ 122 :> 242 @@ 126 :> 250 @@ 95 :> 255
    @@ 43 :> 26 @@ 123 :> 227 @@ 125 :> 156

\* Is the code point in one of the intervals lo .. hi of the table?
RECURSIVE Bisearch(_, _, _)
Bisearch(ucs, lo, hi) ==
    LET mid == (lo + hi) \div 2
    IN CASE lo > hi -> FALSE
         [] lo <= hi /\ ucs > Combining[mid][2] -> Bisearch(ucs, mid + 1, hi)
         [] lo <= hi /\ ucs < Combining[mid][1] -> Bisearch(ucs, lo, mid - 1)
         [] OTHER -> TRUE

\* Code points that take two cells.
Wide(ucs) ==
    \/ ucs \in 4352 .. 4447 \/ ucs \in {9001, 9002}
    \/ ucs \in (11904 .. 42191) \ {12351}
    \/ ucs \in 44032 .. 55203 \/ ucs \in 63744 .. 64255
    \/ ucs \in 65040 .. 65049 \/ ucs \in 65072 .. 65135
    \/ ucs \in 65280 .. 65376 \/ ucs \in 65504 .. 65510
    \/ ucs \in 131072 .. 196605 \/ ucs \in 196608 .. 262141

WcWidth(ucs) ==
    CASE ucs = 0 -> 0
      [] ucs \in (1 .. 31) \cup (127 .. 159) -> 1
      [] OTHER -> IF Bisearch(ucs, 1, Len(Combining)) THEN 0 ELSE IF Wide(ucs) THEN 2 ELSE 1

UnicodeToCp437(ucs) == IF ucs \in DOMAIN Cp437 THEN Cp437[ucs] ELSE -1

\* A code point with a glyph is shown by it, another by a box as wide as it is.
PutCodePoint(t, ucs) ==
    LET cc == UnicodeToCp437(ucs)
        width == WcWidth(ucs)
    IN IF cc # -1 THEN RawPutchar(t, cc)
       ELSE IF width = 0 THEN t ELSE PutBlanks(RawPutchar(t, 254), width - 1)

\* A byte that continues a code point.
Continue(t, c) ==
    LET rest == t.unicode_remaining - 1
        ucs == t.code_point + (c % 64) * 64 ^ rest
        read == [t EXCEPT !.unicode_remaining = rest, !.code_point = ucs]
    IN IF rest > 0 THEN read ELSE PutCodePoint(read, ucs)

\* A byte that begins one.
Begin(t, c) ==
    CASE c \in 192 .. 223 -> [t EXCEPT !.unicode_remaining = 1, !.code_point = (c % 32) * 64]
      [] c \in 224 .. 239 -> [t EXCEPT !.unicode_remaining = 2, !.code_point = (c % 16) * 4096]
      [] c \in 240 .. 247 -> [t EXCEPT !.unicode_remaining = 3, !.code_point = (c % 8) * 262144]

SelectCharset(t, c) ==
    [t EXCEPT !.charsets[t.g_select] = CASE c = 66 -> "default" [] c = 48 -> "dec" [] OTHER -> @,
              !.g_select = 0]

TabStop(t) ==
    LET n == CursorX(t) \div TabSize + 1
    IN SetCursorPos(t, IF n >= Cols THEN Cols - 1 ELSE n * TabSize, CursorY(t))

ControlCodes == {0, Ctl.BEL, Ctl.BS, Ctl.TAB, Ctl.LF, Ctl.VT, Ctl.FF, Ctl.CR, Ctl.SO, Ctl.SI,
                 Ctl.ESC, Ctl.DEL, Ctl.CSI}

ControlCode(t, c) ==
    LET x == CursorX(t)
        y == CursorY(t)
    IN CASE c \in {0, Ctl.DEL, Ctl.BEL} -> t
         [] c \in {Ctl.CSI, Ctl.ESC} ->
              [t EXCEPT !.csi = (@ \/ c = Ctl.CSI), !.escape_offset = 0, !.escape = TRUE]
         [] c = Ctl.TAB -> TabStop(t)
         [] c \in {Ctl.VT, Ctl.FF, Ctl.LF} -> LineDown(t, 0, y)
         [] c = Ctl.BS -> SetCursorPos(t, x - 1, y)
         [] c = Ctl.CR -> SetCursorPos(t, 0, y)
         [] c \in {Ctl.SO, Ctl.SI} -> [t EXCEPT !.current_charset = IF c = Ctl.SO THEN 1 ELSE 0]

\* In insert mode the rest of the line moves to the right, whatever is printed.
MakeRoom(t) ==
    LET y == CursorY(t)
        Move(u, i) == MoveCharacter(u, i + 1, y, i, y)
    IN IF t.insert_mode THEN FoldLeft(Move, t, Falling(Cols - 1, CursorX(t))) ELSE t

PutPrintable(u, c) ==
    LET t == MakeRoom(u)
        special == t.charsets[t.current_charset + 1] = "dec" /\ c \in DOMAIN DecSpecial
    IN IF special THEN RawPutchar(t, DecSpecial[c])
       ELSE IF c \in 32 .. 126 THEN RawPutchar(t, c) ELSE t

\* Slip: the selection of a character set that was begun goes on.
CancelEscapeOnly(t) ==
    [t EXCEPT !.discard_next = FALSE, !.escape = FALSE, !.csi = FALSE, !.control_sequence = FALSE,
              !.unicode_remaining = 0, !.osc = FALSE, !.osc_escape = FALSE]

\* What CAN and SUB end, and the byte that is to be discarded.
Cancel(t) ==
    [t EXCEPT !.discard_next = FALSE, !.escape = FALSE, !.csi = FALSE, !.control_sequence = FALSE,
              !.unicode_remaining = 0, !.osc = FALSE, !.osc_escape = FALSE, !.g_select = 0]

\* flanterm_putchar.
Putchar(u, c) ==
    LET continues == c \in 128 .. 191
        t == [u EXCEPT !.unicode_remaining = 0]
    IN IF u.discard_next \/ c \in {Ctl.CAN, Ctl.SUB} THEN Cancel(u)
       ELSE IF u.unicode_remaining # 0 /\ continues THEN Continue(u, c)
       ELSE IF c \in 192 .. 247 THEN Begin(t, c)
       ELSE IF t.escape THEN EscapeParse(t, c)
       ELSE IF t.g_select # 0 THEN SelectCharset(t, c)
       ELSE IF c \in ControlCodes THEN ControlCode(t, c)
       ELSE PutPrintable(t, c)

\* flanterm_write: the kernel leaves autoflush as it is, switched on.
Written(t, bytes) == DoubleBufferFlush(FoldLeft(Putchar, t, bytes))

=============================================================================
