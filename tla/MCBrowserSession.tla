--------------------------- MODULE MCBrowserSession ---------------------------
(***************************************************************************)
(* Two tabs of one browser, for BrowserSession.                            *)
(***************************************************************************)
EXTENDS BrowserSession

CONSTANTS p1, p2
=============================================================================
