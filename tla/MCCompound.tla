----------------------------- MODULE MCCompound -----------------------------
\* Compound over a tree with a file whose path is long, a link and a directory.
EXTENDS Compound

SomePaths == {"/", "/d", "/d/f", "/l"}
SomeParents == [p \in SomePaths \ {"/"} |-> IF p = "/d/f" THEN "/d" ELSE "/"]
SomeKinds == [p \in SomePaths |->
                CASE p = "/d/f" -> "file" [] p = "/l" -> "link" [] OTHER -> "dir"]

\* Bitmaps of words of two bits: the size; a type and a size over two words; one with
\* an attribute that is not supported; the one no VERIFY may ask for.
SomeRequests == {<<{1}>>, <<{0, 1}, {}>>, <<{1}, {0}>>, <<{}, {1}>>}

\* Records with every operation, each after the walk it needs, alone or behind others.
Whole(ops) == [count |-> Len(ops), ops |-> ops]
SomeRecords ==
  {Whole(ops) : ops \in
     {<<>>, <<"ILLEGAL">>, <<"RENEW", "WRITE">>, <<"GETFH">>, <<"READ">>, <<"ACCESS">>,
      <<"GETATTR">>, <<"READLINK">>, <<"VERIFY">>, <<"PUTFH", "READLINK">>, <<"PUTFH", "SECINFO", "GETFH">>,
      <<"PUTROOTFH", "LOOKUP", "LOOKUP", "GETFH", "GETATTR">>,
      <<"PUTROOTFH", "SAVEFH", "LOOKUP", "READLINK", "RESTOREFH", "GETFH">>,
      <<"RESTOREFH">>, <<"SAVEFH">>, <<"PUTFH", "LOOKUPP", "GETFH">>,
      <<"PUTFH", "OPEN", "READ", "CLOSE">>, <<"PUTFH", "READ", "READ", "LOOKUP">>,
      <<"PUTFH", "READ", "SAVEFH", "READ">>, <<"PUTFH", "VERIFY", "READ">>,
      <<"PUTFH", "NVERIFY", "GETATTR">>, <<"PUTFH", "ACCESS", "READDIR">>,
      <<"PUTFH", "REMOVE", "READDIR">>, <<"PUTFH", "READ", "OPEN_DOWNGRADE", "CLOSE">>}}
  \cup {[count |-> 3, ops |-> <<"PUTFH", "READ">>]}

\* A copied READ with padding; a whole file; the rest of a file; past the end.
SomeReads == {<<0, 1>>, <<0, 8>>, <<4, 4>>}
NotThere == -1
=============================================================================
