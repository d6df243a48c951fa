----------------------------- MODULE MCAtomics -----------------------------
(* Which methods of which types are in use.                                 *)
EXTENDS Atomics

\* Every method of every type but inc of double, whose bits go the wrong way.
AllButDoubleInc == (Types \X Methods) \ {<<"double", "inc">>}

DoubleInc == {<<"double", "inc">>}

DecRetLast == Types \X {"dec_ret_last"}
=============================================================================
