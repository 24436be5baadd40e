----------------------------- MODULE MCUsbBench -----------------------------
(* UsbBench with a packet of two, descriptors of half a packet and of a whole
   one, and two of them in a chain. *)
EXTENDS UsbBench
=============================================================================
