-------------------------- MODULE MCBrowserSession --------------------------
(* Instances of BrowserSession for TLC.                                    *)
EXTENDS BrowserSession, TLC

Requests == Permutations(Task)
=============================================================================
