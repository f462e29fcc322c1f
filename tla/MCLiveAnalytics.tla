--------------------------- MODULE MCLiveAnalytics ---------------------------
(* What the hero starts with, and which blocks a tick leaves out.     *)
EXTENDS LiveAnalytics

CONSTANTS s1, x

OneItem == [s \in Slot |-> IF s = s1 THEN x ELSE Empty]

\* None, one, or all of the hero.
Blocks == {"map", "buildings", "health", "player", "hero", "items"}
OneOrHero == {{}, {"player", "hero", "items"}} \cup {{b} : b \in Blocks}
=============================================================================
