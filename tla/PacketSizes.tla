---------------------------- MODULE PacketSizes ---------------------------
(* The sizes in bytes that several components compute with (constants.rs). *)

MTU == 500
HEADER_MINSIZE == 19
HEADER_MAXSIZE == 35

\* What the cipher adds to a padded plaintext: IV and HMAC.
TOKEN_OVERHEAD == 48
===========================================================================
