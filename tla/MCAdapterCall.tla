----------------------------- MODULE MCAdapterCall -----------------------------
(* Model-checking instance of AdapterCall: a batch that repeats an image   *)
(* against a request for that image alone, and a plan of fallbacks that    *)
(* repeats itself.                                                         *)
EXTENDS AdapterCall, TLC

CONSTANTS c1, c2

Asking(provider, images, pinned, mode) ==
  [provider |-> provider, images |-> images, pinned |-> pinned, mode |-> mode]

MCWorkloads == {
  c1 :> Asking("p", <<"x", "x">>, "nothing", "use")
  @@ c2 :> Asking("q", <<"x">>, "model", "no-store"),
  c1 :> Asking("p", <<"x", "y", "x">>, "model", "refresh")
  @@ c2 :> Asking("p", <<"x">>, "model", "use"),
  [c \in {c1, c2} |-> Asking("p", <<"x">>, "provider", "use")]}

Backup(provider, probe) == [provider |-> provider, probe |-> probe]

MCPlans ==
  {<<>>, <<Backup("p", FALSE), Backup("q", TRUE), Backup("q", FALSE), Backup("r", FALSE)>>}
=============================================================================
