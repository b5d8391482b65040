---------------------------- MODULE MCCommitFlush ----------------------------
EXTENDS CommitFlush

CONSTANTS chair, table, b1, b2, w1, w2

\* One product with two batches; the other SKU is new.
OneProduct == {ProductRow(chair)} \cup BatchRows({b1, b2})
=============================================================================
