-------------------------- MODULE MCAttachmentIndex --------------------------
(* Model-checking instances of AttachmentIndex: two sessions, the first     *)
(* with two batches, the second with one.                                   *)
EXTENDS AttachmentIndex, TLC

CONSTANTS s1, s2, a, b, x, i1, i2, i3

MCSessionOf == a :> s1 @@ b :> s1 @@ x :> s2

(* Three mutations fill the reference cap, or commit a batch after another. *)
MCImagesOf == a :> <<i1>> @@ b :> <<i3>> @@ x :> <<i1, i2>>

(* The first session alone can pin more images than the reference cap.      *)
LongFirst == a :> <<i1, i2>> @@ b :> <<i3>> @@ x :> <<i1>>

AllOperations == L!Legal

(* Uploads and commits: what fills the history.                            *)
Filling == {o \in L!Legal : o.kind \in {"upload", "commit"}}
=============================================================================
