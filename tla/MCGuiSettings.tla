--------------------------- MODULE MCGuiSettings ---------------------------
(* Small instances of GuiSettings for TLC.                                 *)
EXTENDS GuiSettings

SC == <<"C", "STARCITIZEN">>
RSI == <<"D", "RSI">>

MCDir == {Append(SC, "HOTFIX"), Append(RSI, "LIVE")}

(* A log and no directory; a directory the window would have rewritten,    *)
(* beside a log it would have dropped.                                     *)
MCByHand ==
  {[game_install_dir |-> None, log_path |-> Append(RSI, "PTU"), close_action |-> "tray"],
   [game_install_dir |-> Append(SC, "HOTFIX"), log_path |-> Append(RSI, "PTU"),
    close_action |-> "tray"]}

MCBases == <<RSI, SC, RSI>>
MCFallback == <<"C", "FALLBACK", "LIVE">>
=============================================================================
