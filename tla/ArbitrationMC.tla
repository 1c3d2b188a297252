---------------------------- MODULE ArbitrationMC ----------------------------
(***************************************************************************)
(* ArbitrationField over a small set of keys.                              *)
(***************************************************************************)
EXTENDS ArbitrationField

\* Keys with every kind of first difference: a count or a sum, in each tier,
\* inside and outside Margin = 3. A hard flag carries severity of its own.
SomeKeys == { <<0,0,0,0,0,0>>, <<0,0,0,0,0,2>>, <<0,0,0,0,0,4>>, <<0,0,0,2,0,0>>,
          <<0,0,1,5,0,0>>, <<0,2,0,0,0,0>>, <<0,5,0,0,0,4>>, <<0,5,0,0,0,0>>,
          <<1,5,0,0,0,0>>, <<1,7,0,0,0,4>> }
=============================================================================
