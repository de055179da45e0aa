-------------------------- MODULE MCEventListener --------------------------
(***************************************************************************)
(* One stream, restarted once, so that a goroutine of the first start can  *)
(* meet one of the second; streams share nothing but the context and the   *)
(* wait group.  Two reconnections reach the backoff's cap, and two buffer  *)
(* slots leave events behind when the stream breaks.                       *)
(***************************************************************************)
EXTENDS EventListener

=============================================================================
