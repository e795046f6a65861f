------------------------- MODULE MCDerivativeCache --------------------------
(***************************************************************************)
(* Instantiates DerivativeCache for TLC: three threads calling on two      *)
(* types, so that two calls race on one derivative while a third takes the *)
(* other derivative of the same type under the same monitor.               *)
(***************************************************************************)
EXTENDS DerivativeCache

MCThreads == {"t1", "t2", "t3"}
MCTypes   == {"Int32", "A"}
=============================================================================
