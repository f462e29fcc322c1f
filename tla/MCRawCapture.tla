---------------------------- MODULE MCRawCapture ----------------------------
(* Two valid posts and one that is not JSON, over two processes.           *)
EXTENDS RawCapture, TLC

CONSTANTS g1, g2, bad

Posts == Permutations({g1, g2})
=============================================================================
