---------------------------- MODULE MCFaceIndex ----------------------------
EXTENDS FaceIndex, TLC

CONSTANTS r1, r2, r3, f1, f2, q1, q2, c1

\* r1 and r3 show the same face.
SameFace == r1 :> f1 @@ r2 :> f2 @@ r3 :> f1
TwoFaces == r1 :> f1 @@ r2 :> f2

\* Two people with one face are alike, and so are two opt-out requests.
Symmetry == {f @@ g : f \in Permutations({r1, r3}), g \in Permutations({q1, q2})}
=============================================================================
