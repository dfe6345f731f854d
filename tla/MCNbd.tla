------------------------------- MODULE MCNbd -------------------------------
\* Three blocks of which the first two are a card, requests of at most two.
EXTENDS NbdSession

Req(cmd, off, len) == [cmd |-> cmd, off |-> off, len |-> len]
SmallRequests ==
    {Req("read", 0, 2), Req("write", 0, 2), Req("write", 1, 2), Req("write", 2, 2),
     Req("write", 0, 3), Req("flush", 0, 0), Req("trim", 1, 1), Req("disconnect", 0, 0)}
SmallCard == {0, 1}

=============================================================================
