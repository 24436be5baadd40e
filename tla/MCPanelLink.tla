----------------------------- MODULE MCPanelLink -----------------------------
(* PanelLink with replies of two bytes, a FIFO of one and a queue of two: no
   frame fits where it goes in one piece. *)
EXTENDS PanelLink
=============================================================================
