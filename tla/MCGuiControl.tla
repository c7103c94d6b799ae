---------------------------- MODULE MCGuiControl ----------------------------
(* Small instances of GuiControl for TLC.                                  *)
EXTENDS GuiControl
=============================================================================
