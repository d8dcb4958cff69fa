------------------------------- MODULE MCSignIn -------------------------------
(* Instances of SignIn for TLC: a browser with two tabs and a second one    *)
(* with one; at the start nobody is signed in, one browser is, or both are. *)
EXTENDS SignIn, TLC

CONSTANTS t1, t2, t3, c1, c2, c3, b1, b2

MCBrowserOf == [t \in Tab |-> IF t = t3 THEN b2 ELSE b1]
MCTabOf     == [c \in Call |-> IF c = c3 THEN t2 ELSE t1]

SignedOut == [b \in Browser |-> None]
OneIsIn   == [b \in Browser |-> IF b = b1 THEN 1 ELSE None]
BothAreIn == [b \in Browser |-> IF b = b1 THEN 1 ELSE 2]
MCStart   == {SignedOut, OneIsIn, BothAreIn}

(* Two calls of one tab are alike.                                          *)
Interchangeable == Permutations(Call \ {c3})
===============================================================================
