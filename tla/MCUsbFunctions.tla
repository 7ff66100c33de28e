--------------------------- MODULE MCUsbFunctions ---------------------------
(***************************************************************************)
(* Small devices of every kind.                                            *)
(***************************************************************************)
EXTENDS UsbFunctions

\* Interfaces as devices have them, and some that lack what their driver wants.
MCSetting(name, body) == [name |-> name, body |-> body]
MCSettings ==
  {MCSetting("keyboard", <<"hid", "int in">>), MCSetting("mouse", <<"hid", "int in">>),
   MCSetting("mouse", <<"int in">>), MCSetting("gamepad", <<"hid", "int in", "int out">>),
   MCSetting("storage", <<"bulk in", "bulk out">>), MCSetting("storage", <<"bulk in", "int in">>),
   MCSetting("hub", <<"int in">>), MCSetting("midi", <<"bulk in", "cs", "bulk out", "cs">>),
   MCSetting("midi", <<"bulk in", "cs", "bulk in", "cs">>), MCSetting("midi", <<"bulk in">>),
   MCSetting("other", <<"bulk in", "cs", "bulk out", "int in">>), MCSetting("other", <<>>)}

\* Axes with a sign, a hat and buttons; two reports; an axis across bytes before a hat and buttons;
\* two items of axes; one axis more than there is room for; no control at all.
MCField(kind, count, size, min) == [kind |-> kind, count |-> count, size |-> size, min |-> min]
MCLayouts ==
  {[reports |-> 1, fields |-> <<MCField("axis", 2, 4, -8), MCField("hat", 1, 4, 0),
                                MCField("constant", 1, 1, 0), MCField("button", 3, 1, 0)>>],
   [reports |-> 2, fields |-> <<MCField("button", 4, 1, 0), MCField("constant", 1, 4, 0),
                                MCField("axis", 1, 8, 0)>>],
   [reports |-> 1, fields |-> <<MCField("axis", 1, 10, -512), MCField("hat", 1, 3, 0), MCField("button", 3, 1, 0)>>],
   [reports |-> 1, fields |-> <<MCField("axis", 1, 8, -128), MCField("button", 4, 1, 0), MCField("axis", 2, 2, 0)>>],
   [reports |-> 1, fields |-> <<MCField("axis", 6, 1, 0), MCField("axis", 1, 2, -2), MCField("hat", 1, 4, 0),
                                MCField("button", 4, 1, 0)>>],
   [reports |-> 1, fields |-> <<MCField("constant", 1, 8, 0)>>]}
=============================================================================
