--------------------------- MODULE MCUnderstandImage ---------------------------
(* Model-checking instance of UnderstandImage: two images that fit together *)
(* and a third that does not, the second a local file.                      *)
EXTENDS UnderstandImage, TLC

CONSTANTS i1, i2, i3

MCSizeOf == i1 :> 1 @@ i2 :> 1 @@ i3 :> 2

Asking(images, mode, named, focused) ==
  [images |-> images, mode |-> mode, named |-> named, focused |-> focused,
   session |-> FALSE, reusable |-> TRUE]

MCArguments ==
  {Asking(<<i1>>, m, FALSE, FALSE) : m \in Modes}
  \cup {Asking(<<i1>>, "use", n, TRUE) : n \in BOOLEAN}
  \cup {[Asking(<<i1, i2, i1>>, "use", FALSE, FALSE) EXCEPT !.session = TRUE],
        Asking(<<i3, i1, i3>>, "refresh", FALSE, FALSE),
        Asking(<<>>, "use", FALSE, FALSE),
        [Asking(<<i2>>, "use", FALSE, FALSE) EXCEPT !.reusable = FALSE]}
=============================================================================
