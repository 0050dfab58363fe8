---------------------------- MODULE MCRpcServer ----------------------------
\* RpcServer with a client that sends one of four streams.
EXTENDS RpcServer

Part(n) == [length |-> n, last |-> FALSE]
End(n)  == [length |-> n, last |-> TRUE]

\* One fragment a record; records of several fragments, empty ones among them; a
\* record too long by its second fragment, and one by its only fragment.
SomeStreams == {
  <<End(1), End(0), End(2), End(1), End(1)>>,
  <<Part(1), End(2), End(1), Part(0), Part(3), End(0), End(3)>>,
  <<End(1), Part(2), Part(1), End(1), End(1)>>,
  <<Part(1), End(0), End(1), End(4), End(1)>>}
=============================================================================
