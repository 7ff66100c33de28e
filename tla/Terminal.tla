------------------------------ MODULE Terminal ------------------------------
(***************************************************************************)
(* The kernel's terminal: set up once over the framebuffer, then written   *)
(* to piece by piece by the log.  A piece may end anywhere, also inside a  *)
(* control sequence.  What is written in a run is one of several sessions, *)
(* each with the pieces it is made of.                                     *)
(***************************************************************************)
EXTENDS Flanterm

CONSTANTS PoolSizes,    \* sizes the memory pool of the terminal may have
          Requests,     \* sizes flanterm_fb_init allocates, in its order
          Pieces,       \* of a session, what may be written next
          MaxWrites,    \* of a session, bound on the number of writes
          NoContext     \* TerminalContext before it is set, or when that failed

VARIABLES ctx,          \* Logging::TerminalContext
          pool,         \* bump_alloc_pool: its size, what was handed out of it
          session, writes

vars == <<ctx, pool, session, writes>>

-----------------------------------------------------------------------------
(* Setting up                                                              *)

\* The context after memset and the allocations, all blanks in the default colours.
FreshContext ==
    [framebuffer |-> [cell \in Cells |-> [p \in Pixels |-> DefaultBg]],
     grid |-> [cell \in Cells |-> [c |-> 32, fg |-> DefaultFg, bg |-> Canvas]],
     queue |-> NoChanges, text_fg |-> DefaultFg, text_bg |-> Canvas,
     cursor_x |-> 0, cursor_y |-> 0, old_cursor_x |-> 0, old_cursor_y |-> 0,
     cursor_enabled |-> FALSE, scroll_enabled |-> FALSE, control_sequence |-> FALSE,
     csi |-> FALSE, escape |-> FALSE, osc |-> FALSE, osc_escape |-> FALSE, rrr |-> FALSE,
     discard_next |-> FALSE, bold |-> FALSE, bg_bold |-> FALSE, reverse_video |-> FALSE,
     dec_private |-> FALSE, insert_mode |-> FALSE, unicode_remaining |-> 0, code_point |-> 0,
     g_select |-> 0, charsets |-> <<"default", "default">>, current_charset |-> 0,
     escape_offset |-> 0, esc_values |-> <<>>, value |-> 0, saved_cursor_x |-> 0,
     saved_cursor_y |-> 0, current_primary |-> 0, current_bg |-> 0,
     scroll_top_margin |-> 0, scroll_bottom_margin |-> 0,
     saved_state |-> [bold |-> FALSE, bg_bold |-> FALSE, reverse_video |-> FALSE,
                      current_charset |-> 0, current_primary |-> 0, current_bg |-> 0,
                      text_fg |-> Dim(0), text_bg |-> Dim(0), cursor_x |-> 0, cursor_y |-> 0]]

\* bump_alloc: the pool after a request, or that there was no room for it.
BumpAlloc(p, size) ==
    IF p.failed \/ p.used + size > p.size THEN [p EXCEPT !.failed = TRUE]
    ELSE [p EXCEPT !.used = @ + size]

\* Slip: what was allocated before the failure is not given back.
InitLeaks ==
    LET allocated == FoldLeft(BumpAlloc, pool, Requests)
    IN /\ ctx = NoContext /\ ~pool.tried
       /\ pool' = [allocated EXCEPT !.failed = FALSE, !.tried = TRUE]
       /\ ctx' = IF allocated.failed THEN ctx ELSE FullRefresh(Reinit(FreshContext))
       /\ UNCHANGED <<session, writes>>

\* flanterm_fb_simple_init from KernelMain, once.
FbInit ==
    LET allocated == FoldLeft(BumpAlloc, pool, Requests)
    IN /\ ctx = NoContext /\ ~pool.tried
       /\ pool' = [(IF allocated.failed THEN pool ELSE allocated) EXCEPT !.tried = TRUE]
       /\ ctx' = IF allocated.failed THEN ctx ELSE FullRefresh(Reinit(FreshContext))
       /\ UNCHANGED <<session, writes>>

Init ==
    /\ ctx = NoContext
    /\ pool \in [size : PoolSizes, used : {0}, failed : {FALSE}, tried : {FALSE}]
    /\ session \in DOMAIN Pieces
    /\ writes = 0

\* The log writes a piece, if there is a terminal.
Write(bytes) ==
    /\ ctx # NoContext
    /\ writes < MaxWrites[session]
    /\ ctx' = Written(ctx, bytes)
    /\ writes' = writes + 1
    /\ UNCHANGED <<pool, session>>

Next == FbInit \/ \E bytes \in Pieces[session] : Write(bytes)

Spec == Init /\ [][Next]_vars

-----------------------------------------------------------------------------
(* Properties                                                              *)

\* The memory of the terminal is all there or none of it is: a setup that
\* fails half-way (the fail label of flanterm_fb_init) leaves the pool as it was.
SetupIsAllOrNothing ==
    pool.used = IF ctx = NoContext THEN 0 ELSE FoldLeft(+, 0, Requests)

\* After every write each pixel is what the character of its cell asks for,
\* with the colours exchanged where the cursor is: plotting only the pixels
\* that differ, and only the cells that changed, leaves nothing stale behind,
\* neither a cursor that moved on nor one that was switched off.
ScreenShowsGrid ==
    ctx # NoContext =>
      /\ ctx.queue = NoChanges
      /\ \A cell \in Cells :
           LET ch == ctx.grid[cell]
               at == cell = <<ctx.cursor_x, ctx.cursor_y>> /\ ctx.cursor_enabled
           IN ctx.framebuffer[cell] =
                IF at THEN Plotted([ch EXCEPT !.fg = ch.bg, !.bg = ch.fg]) ELSE Plotted(ch)

\* The colours in use are those the attributes ask for: the hue of the text
\* and of the background, bright if bold, exchanged in reverse video.
RenditionIsConsistent ==
    ctx # NoContext =>
      LET fg == IF ctx.reverse_video THEN ctx.text_bg ELSE ctx.text_fg
          bg == IF ctx.reverse_video THEN ctx.text_fg ELSE ctx.text_bg
          fgs == IF ctx.current_primary = NoColour THEN <<DefaultFg, DefaultFgBright>>
                 ELSE <<Dim(ctx.current_primary), Bright(ctx.current_primary)>>
          bgs == IF ctx.current_bg = NoColour THEN <<Canvas, DefaultBgBright>>
                 ELSE <<Dim(ctx.current_bg), Bright(ctx.current_bg)>>
      IN /\ fg \in IF ctx.bold THEN {fgs[2]} ELSE {fgs[1], fgs[2]}
         /\ bg \in IF ctx.bg_bold THEN {bgs[2]} ELSE {bgs[1], bgs[2]}

\* A rendition stays right whatever is written next, unless that names colours
\* by number or value, or resets the terminal.  Not so where reverse video shows
\* a default colour: bold, blink and their ends then take that of the wrong side.
DefaultsReversed ==
    ctx.reverse_video /\ (ctx.current_primary = NoColour \/ ctx.current_bg = NoColour)
RenditionIsKept ==
    [][session # "palette" /\ ctx # NoContext /\ RenditionIsConsistent /\ ~DefaultsReversed
       => RenditionIsConsistent']_vars

\* Editing, by its meaning for the page: the characters at and after the cursor
\* move right or left on their line, are blanked, or lines move in the region.
Page == Content(ctx)
Blank == Empty(ctx)
Edited(kind, n) ==
    LET x == CursorX(ctx)
        top == IF kind = Fin.IL THEN CursorY(ctx) ELSE ctx.scroll_top_margin
        bottom == ctx.scroll_bottom_margin - 1
        New(cell) ==
            LET rest == cell[2] = CursorY(ctx) /\ cell[1] >= x
                left == <<cell[1] - n, cell[2]>>
                right == <<cell[1] + n, cell[2]>>
                above == <<cell[1], cell[2] - n>>
                below == <<cell[1], cell[2] + n>>
            IN CASE kind = Fin.ICH /\ rest -> IF cell[1] < x + n THEN Blank ELSE Page[left]
                 [] kind = Fin.DCH /\ rest -> IF right \in Cells THEN Page[right] ELSE Blank
                 [] kind = Fin.ECH /\ rest -> IF cell[1] < x + n THEN Blank ELSE Page[cell]
                 [] kind = Fin.IL /\ cell[2] \in top .. bottom ->
                      IF above[2] >= top THEN Page[above] ELSE Blank
                 [] kind = Fin.DL /\ cell[2] \in top .. bottom ->
                      IF below[2] <= bottom THEN Page[below] ELSE Blank
                 [] OTHER -> Page[cell]
    IN [cell \in Cells |-> New(cell)]
Command(kind, n) == <<Ctl.ESC, Ctl.LeftBracket, 48 + n, kind>>

\* Inserting, deleting and erasing characters and lines does to the page what it
\* means, for counts that fit on the line and a cursor in the scrolled region,
\* also after another edit that is still in the queue.
EditsAreExact ==
    session = "edit" /\ ctx # NoContext =>
      \A kind \in {Fin.ICH, Fin.DCH, Fin.ECH, Fin.IL, Fin.DL}, n \in 1 .. Cols - CursorX(ctx) :
        /\ ctx.cursor_x < Cols
        /\ CursorY(ctx) \in ctx.scroll_top_margin .. ctx.scroll_bottom_margin - 1
        => /\ Written(ctx, Command(kind, n)).grid = Edited(kind, n)
           /\ kind \in {Fin.ICH, Fin.DCH} /\ CursorX(ctx) + 2 <= Cols =>
                Written(ctx, Command(kind, 1) \o Command(kind, 1)).grid =
                Written(ctx, Command(kind, 2)).grid

\* Whatever was begun, after CAN a character is printed, at the cursor.
TextAfterCancel ==
    ctx # NoContext /\ ctx.cursor_x < Cols /\ ~ctx.insert_mode =>
      LET at == <<ctx.cursor_x, CursorY(ctx)>>
          letter == [Blank EXCEPT !.c = 65]
      IN Written(ctx, <<Ctl.CAN, letter.c>>).grid = [Page EXCEPT ![at] = letter]

=============================================================================
