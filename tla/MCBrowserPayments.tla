-------------------------- MODULE MCBrowserPayments --------------------------
(* Two tabs, two outputs, one of them without an address.                  *)
EXTENDS BrowserPayments
MCAddressOf == [u1 |-> "alice", u2 |-> ""]
=============================================================================
