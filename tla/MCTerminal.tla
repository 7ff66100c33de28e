----------------------------- MODULE MCTerminal -----------------------------
(***************************************************************************)
(* A small terminal and the sessions TLC writes to it.                     *)
(***************************************************************************)
EXTENDS Terminal

\* Two letters, a blank, a box and two line drawing glyphs, one with the ninth column.
MCFontBits == [c \in 0 .. 255 |-> CASE c = 32 -> {}
                                    [] c = 66 -> {8}
                                    [] c \in {196, 219} -> {1, 8}
                                    [] OTHER -> {1}]
MCCp437 == 9829 :> 3 @@ 181 :> 230
MCCombining == << <<768, 879>>, <<1155, 1158>>, <<65056, 65059>> >>
MCRequests == <<1, 2, 3, 1, 1, 1, 3>>

\* The letters A and B, twice B and a blank.
A == <<65>>
AB == <<65, 66>>
BB == <<66, 66, 32>>

\* Control sequences with no, one, two or more parameters.
Decimal(n) == IF n < 10 THEN <<48 + n>> ELSE <<48 + (n \div 10), 48 + (n % 10)>>
Begun == <<Ctl.ESC, Ctl.LeftBracket>>
Csi(c) == Append(Begun, Fin[c])
One(n, c) == Begun \o Decimal(n) \o <<Fin[c]>>
Two(n, m, c) == Begun \o Decimal(n) \o <<Ctl.Semicolon>> \o Decimal(m) \o <<Fin[c]>>
Private(n, c) == Begun \o <<Ctl.Question>> \o Decimal(n) \o <<Fin[c]>>
Many(ns) == Begun \o FlattenSeq([i \in DOMAIN ns |-> Decimal(ns[i]) \o <<Ctl.Semicolon>>])
            \o <<Fin.SGR>>
Esc(c) == <<Ctl.ESC, c>>

MCPieces ==
    [text |-> {A, BB, <<Ctl.LF>>, <<66, Ctl.TAB>>, <<Ctl.BS>>, <<Ctl.CR, 66>>, <<Ctl.VT>>,
               Private(25, "RM"), Private(25, "SM"), <<226, 153, 165>>, <<227, 129, 130>>,
               <<204, 129, 65>>},
     cursor |-> {One(2, "CUU"), One(1, "CUD"), One(1, "CUF"), One(2, "CUB"), One(1, "CPL"),
                 One(1, "CNL"), Two(3, 2, "CUP"), One(0, "VPA"), One(2, "HPA"), One(0, "CHA"),
                 Csi("SCP"), Csi("RCP"), Two(2, 3, "STBM"), Two(1, 2, "STBM"), Csi("STBM"),
                 AB, <<Ctl.LF>>, Esc(77), Esc(68), Esc(69)},
     edit |-> {AB, <<Ctl.LF, 66>>, Csi("CUP"), Two(2, 2, "CUP"), One(1, "CUB"),
               Two(1, 2, "STBM"), Two(2, 3, "STBM"), One(1, "ICH"), One(1, "DCH"),
               One(1, "ECH"), Csi("ED"), One(1, "ED"), One(2, "ED"), Csi("EL"), One(1, "EL"),
               One(2, "EL"), Csi("IL"), Csi("DL"), One(4, "SM"), One(4, "RM"), Esc(77)},
     colours |-> {One(n, "SGR") : n \in {0, 1, 5, 7, 22, 25, 27, 31, 39, 42, 49, 91}}
                 \cup {Many(<<1, 0, 7, 33>>), Csi("SGR"), A, One(2, "ED")},
     palette |-> {Many(<<38, 5, 1>>), Many(<<48, 5, 9>>), Many(<<38, 5, 20>>),
                  Many(<<48, 2, 1, 2, 3>>), Two(38, 5, "SGR"), Many(<<38, 9, 1>>),
                  Many(<<38, 2, 1, 2>>), One(7, "SGR"), A, Two(31, 42, "SGR"), Esc(55),
                  Esc(56), Esc(99)},
     saved |-> {Esc(55), Esc(56), One(31, "SGR"), Two(1, 42, "SGR"), Csi("SGR"), A,
                <<Ctl.SO, 113>>, <<Ctl.SI>>, <<Ctl.ESC, 40, 48>>, <<Ctl.ESC, 41, 66>>, <<113>>},
     broken |-> {<<c>> : c \in {Ctl.ESC, Ctl.LeftBracket, Ctl.Question, Fin.RM, Ctl.CAN,
                                Ctl.RightBracket, Ctl.BEL, Ctl.Backslash, 226, 153, Ctl.CSI,
                                40, Ctl.Semicolon, 65}} \cup {<<50, 53>>}]
MCMaxWrites == [text |-> 4, cursor |-> 4, edit |-> 3, colours |-> 4, palette |-> 3, saved |-> 4,
                broken |-> 5]
=============================================================================
