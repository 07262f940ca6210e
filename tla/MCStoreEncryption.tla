------------------------- MODULE MCStoreEncryption -------------------------
\* Small instances of StoreEncryption.
EXTENDS StoreEncryption

MCMaxRows == <<2, 1, 1, 0>>
=============================================================================
