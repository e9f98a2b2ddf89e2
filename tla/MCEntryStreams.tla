----------------------------- MODULE MCEntryStreams -----------------------------
EXTENDS EntryStreams

================================================================================
