------------------------------- MODULE MCHook ------------------------------
(* A small instance of Hook. *)
EXTENDS Hook

CONSTANTS reader, connector, owner

\* One fiber reads, one connects, one opens, tunes and closes the descriptors.
MCCalls ==
  [f \in Fibers |->
     CASE f = reader    -> {"read", "sleep"}
       [] f = connector -> {"connect"}
       [] f = owner     -> {"socket", "close", "fcntl", "ioctl", "setsockopt"}]

MCMaxCalls ==
  [f \in Fibers |-> CASE f = reader -> 2 [] f = connector -> 1 [] f = owner -> 4]

\* With Unhooked = {reader}: a thread without hooks closes what a hooked one opened.
ClosedUnseen ==
  [f \in Fibers |->
     CASE f = reader -> {"close"} [] f = connector -> {} [] f = owner -> {"socket", "read"}]
=============================================================================
