--------------------------- MODULE MessageStoreMC ---------------------------
(* Two writers, a small buffer and one msgid for TLC. *)
EXTENDS MessageStore
==============================================================================
