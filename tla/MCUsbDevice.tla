---------------------------- MODULE MCUsbDevice ----------------------------
(* Both threads write; core 0 asks whether the port is open, core 1 flushes, *)
(* and a handler reads and sends reports.                                  *)
EXTENDS UsbDevice

Every == [c \in Ctx |-> CASE c = "main0" -> {"write", "bool"}
                          [] c = "main1" -> {"write", "flush"}
                          [] c = "user"  -> {"read", "report"}
                          [] c = "tick"  -> {"tick"}]
=============================================================================
