--------------------------- MODULE MCPaynotePool ---------------------------
\* Small instances of the Paynote pool.
EXTENDS PaynotePool

CONSTANTS settlement, k1, c1, tokenA, tokenB

MCContexts == {Zero, settlement}

DepositOf(key, asset, amount) == [key |-> key, asset |-> asset, amount |-> amount]

\* A careless wallet draws a key, deposits an amount of two under it, and
\* computes in advance the key of the change of that note, under which it also
\* deposits.
CarelessNote == DepositOf(Secret(c1), tokenA, 2)
FutureKey ==
  ChangeKey(CarelessNote.key,
            NoteNullifier(OutputCommitment(ChainId, CarelessNote), CarelessNote.key))

MCCarelessKeys == {CarelessNote.key, FutureKey}

MCDeposits ==
  {DepositOf(Secret(k1), tokenA, 1), DepositOf(Secret(k1), tokenA, 3),
   DepositOf(Secret(k1), tokenB, 1), CarelessNote, DepositOf(FutureKey, tokenA, 1)}
=============================================================================
