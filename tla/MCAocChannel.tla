---------------------------- MODULE MCAocChannel ----------------------------
EXTENDS AocChannel, TLC

ReaderSymmetry == Permutations(Reader)
=============================================================================
