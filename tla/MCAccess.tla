------------------------------ MODULE MCAccess ------------------------------
(* Two devices, a mixed-case account whose lower-case spelling is free, an   *)
(* inactive account, and lifetimes short enough that everything can expire   *)
(* between a check and the write that follows it.                            *)
EXTENDS Access, TLC

CONSTANTS r1, r2, r3, h1, h2, l1, ann, Ann, bob, cem

MCRequests == {r1, r2, r3}
MCHandshakes == {h1, h2}
MCLinks == {l1}
MCEmails == {ann, Ann, bob, cem}
MCLower == (ann :> ann) @@ (Ann :> ann) @@ (bob :> bob) @@ (cem :> cem)
MCRegistered == {Ann, bob, cem}
MCInactive == {cem}
MCSymmetry == Permutations(MCRequests) \cup Permutations(MCHandshakes)
=============================================================================
