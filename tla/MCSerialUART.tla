----------------------------- MODULE MCSerialUART -----------------------------
(* Instances of SerialUART for TLC.                                            *)
EXTENDS SerialUART

Does(thread0, isr0, thread1, isr1) ==
    [x \in Contexts |-> CASE x = <<0, "thread">> -> thread0
                          [] x = <<0, "isr">>    -> isr0
                          [] x = <<1, "thread">> -> thread1
                          [] OTHER               -> isr1]

MCCalls     == Does({"begin", "end", "read", "write"}, {"read", "write"},
                     {"read", "peek", "overflow"}, {})
MCAvailable == Does({"begin", "read", "available"}, {}, {}, {})
MCMaxCalls  == Does(3, 1, 1, 0)
MCMoreCalls == Does(6, 0, 0, 0)

MCTwo       == {2}
MCBoolean   == BOOLEAN
MCInterrupts == {FALSE}
================================================================================
