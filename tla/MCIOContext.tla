---------------------------- MODULE MCIOContext -----------------------------
(* Instances of IOContext for TLC. *)
EXTENDS IOContext
=============================================================================
