------------------------------ MODULE MCC2Port ------------------------------
(* Instances of C2Port: a flash of five cells, addressed with digits of    *)
(* base 4, written in chunks of two.                                       *)
EXTENDS C2Port, TLC

CONSTANTS t1, t2

MCThreads == {t1, t2}
Symm == Permutations(MCThreads)

Store(op) == {Call(op, on, 0, <<>>) : on \in BOOLEAN}
Simple(op) == Call(op, FALSE, 0, <<>>)
Control == Store("access") \cup Store("flash_access")
             \cup {Simple("reset"), Simple("dev_id")}
Flash ==
    {Simple("flash_erase"),
     Call("flash_write", FALSE, 0, <<"a", "b", "a">>),
     Call("flash_write", FALSE, 4, <<"b", "a">>),
     Call("flash_write", FALSE, 5, <<"b">>),
     Call("flash_read", FALSE, 4, <<"x">>),
     Call("flash_read", FALSE, 0, <<"x", "x", "x">>),
     Call("flash_read", FALSE, 5, <<"x">>)}

MCCalls == Control \cup Flash \cup {Simple("rev_id")}
MCControl == Control
=============================================================================
