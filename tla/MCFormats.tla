------------------------------- MODULE MCFormats -------------------------------
EXTENDS Formats

\* Within a window of the NACK's bitmask, at its end, past it and over the wrap.
MCNackLists ==
    {<<>>, <<5>>, <<5, 6, 21>>, <<5, 22>>, <<65534, 65535, 0, 14>>, <<1, 40, 80, 120>>}
MCMemory == {[i \in 1 .. 12 |-> 0], [i \in 1 .. 12 |-> IF i < 5 THEN 255 ELSE 85]}
MCOrders == {<<>>, <<20>>, <<20, 21>>}
================================================================================
