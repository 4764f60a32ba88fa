----------------------------- MODULE MCFcpVolume -----------------------------
(***************************************************************************)
(* Small instances of FcpVolume: one template, with one device or with two *)
(* paths of one device each, one or two virtual machines and up to three   *)
(* sessions.                                                               *)
(***************************************************************************)
EXTENDS FcpVolume, TLC

CONSTANTS s1, s2, s3, vm1, vm2, t1, a1, b1, v1, v2

OneDevice == {<<t1, a1, 1>>}

\* min_fcp_paths_count is 1, so that a connector has one path or both.
OnePathEach == {<<t1, a1, 1>>, <<t1, b1, 2>>}

AtLeastOne == [t \in Template |-> 1]

\* A session for each virtual machine.
OneEach == s1 :> vm1 @@ s2 :> vm2

\* Two sessions for the same virtual machine.
BothOnOne == s1 :> vm1 @@ s2 :> vm1

\* Two for the first, one for the second.
TwoAndOne == s1 :> vm1 @@ s2 :> vm1 @@ s3 :> vm2

Swap(x, y) == x :> y @@ y :> x

\* Volumes are alike, and so are two virtual machines with a session each.
Alike ==
  Permutations({v1, v2})
    \cup {p @@ Swap(s1, s2) @@ Swap(vm1, vm2) : p \in Permutations({v1, v2})}
==============================================================================
