--------------------------- MODULE MCTerminalScreen ---------------------------
(***************************************************************************)
(* One terminal, two attachments at most, two occurrences of output.     *)
(***************************************************************************)
EXTENDS TerminalScreen
=============================================================================
