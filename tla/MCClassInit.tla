---------------------------- MODULE MCClassInit ----------------------------
\* ClassInit for TLC: a class A, which implements the interface I with default
\* methods, and its subclass B, which implements the interface J.  J has no
\* default methods and extends I.  The initialiser of A may use B, that of I
\* may use A.
EXTENDS ClassInit, TLC
CONSTANTS t1, t2, A, B, I, J

MCSupers == A :> <<I>> @@ B :> <<A, J>> @@ I :> << >> @@ J :> <<I>>
MCUses == A :> {B} @@ B :> {} @@ I :> {A} @@ J :> {}
MCEntries ==
    t1 :> {<<"e_enter", B>>, <<"mi_lock", NoClass>>} @@
    t2 :> {<<"e_enter", B>>, <<"e_enter", I>>, <<"v_lock", A>>, <<"v_lock", B>>}
MCMaxCalls == t1 :> 2 @@ t2 :> 1
=============================================================================
