----------------------------- MODULE MCTerminal -----------------------------
(* Model values for Terminal: the scancode sets of the runs.              *)
EXTENDS Terminal

(* Every modelled scancode for two terminals.                            *)
MCAllKeys == AllKeys

(* Only what a line needs: printable keys, ENTER and BACKSPACE.          *)
MCLineKeys == {"c", "enter", "backspace"}

(* Typing only: printable keys and ENTER.                                *)
MCTypeKeys == {"c", "enter"}

(* Typing and switching, without Ctrl.                                   *)
MCSwitchKeys == {"c", "enter", "alt_make", "alt_break"} \cup FKeys
=============================================================================
