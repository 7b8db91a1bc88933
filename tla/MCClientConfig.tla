--------------------------- MODULE MCClientConfig ---------------------------
EXTENDS ClientConfig

\* Nothing, one message, one twice, and a value that is no PubSubMessage.
MCSubscriptions == {<<>>, <<2>>, <<1, 3, 1>>, <<0, 4>>}

\* Below and above zero, below a millisecond, with a fraction, the greatest that
\* fits and the least that does not, and not a number.
MCTimeouts == {-10, 0, 5, 25, 89, 90, NaN}

\* No port, the first, one that is the default of another message, and one too large.
MCPorts == {0, 1, 61502, 70000}
=============================================================================
