------------------------------ MODULE MCItemLog ------------------------------
(***************************************************************************)
(* ItemLog for TLC: two keys of one and two bytes, a value, a secret of    *)
(* the right size and an empty one, four Options and one hash function.    *)
(***************************************************************************)
EXTENDS ItemLog

B(x) == [b |-> x]

MCKeys == {<<B("a")>>, <<B("b"), B("b")>>}

MCValues == {<<B("x")>>}

secret16 == [i \in 1 .. 16 |-> "s"]

MCSecrets == {<<>>, secret16}

\* No directory; the default; encryption with a secret of 16 bytes, the
\* size left as it is, and with one of 15.
MCOptions ==
    {[DefaultOption EXCEPT !.Directory = <<>>],
     DefaultOption,
     [DefaultOption EXCEPT !.Enable = TRUE, !.Secret = secret16, !.DataFileMaxSize = 0],
     [DefaultOption EXCEPT !.Enable = TRUE, !.Secret = [i \in 1 .. 15 |-> "s"]]}

=============================================================================
