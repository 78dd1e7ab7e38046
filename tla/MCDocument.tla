----------------------------- MODULE MCDocument -----------------------------
\* DocumentFile for TLC.
EXTENDS DocumentFile
=============================================================================
