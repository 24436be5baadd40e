----------------------------- MODULE MCAtaDriver -----------------------------
(* Model checking the controller under the firmware's driver: sectors of two
   accesses, up to three sectors per request, three polls per timer. *)
EXTENDS AtaDriver
=============================================================================
