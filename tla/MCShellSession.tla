--------------------------- MODULE MCShellSession ---------------------------
(***************************************************************************)
(* Small instances of ShellSession for TLC.                                *)
(***************************************************************************)
EXTENDS ShellSession

MCSizes == {<<3, 2>>, <<2, 3>>}
MCFirst == <<3, 2>>

\* A tab and a character of two bytes, then another shell; the cursor moved and a blank inserted; the
\* alternative screen; a reply; an attribute; a scrolled screen; a title that is too
\* long; the scrollback erased; the echo of EchoOf. Digits are the bytes 48 to 57.
MCPlays ==
  {<< <<TAB, 208, 176>>, <<>> >>,
   << <<97, ESC, Ch.csi, Ch.H, ESC, Ch.csi, Ch.at>> >>,
   << <<ESC, Ch.csi, Ch.ask, 52, 55, Ch.h>> >>,
   << <<ESC, Ch.csi, 54, Ch.n>> >>,
   << <<ESC, Ch.csi, 49, Ch.m, 97>> >>,
   << <<97, ESC, Ch.csi, Ch.S>> >>,
   << <<ESC, Ch.osc, 48, 49, 50>> >>,
   << <<97, LF, LF, LF, ESC, Ch.csi, 51, Ch.J>> >>,
   << <<99, 100, CR, LF>> >>}

MCEcho == [s \in Servers |-> <<99, 100>>]
MCRunTexts == {<<120, LF>>}
=============================================================================
