---------------------------- MODULE MCFuseCache ----------------------------
\* FuseCache on small instances.
EXTENDS FuseCache

CONSTANTS n1, n2, i1, i2

\* A file is renamed over another one: a name leads to either inode, and an
\* inode is found under either name.
Renames == {<<n1, i1>>, <<n2, i1>>, <<n2, i2>>}
Derived == {<<n1, i1>>, <<n2, i2>>}
=============================================================================
