----------------------------- MODULE MCCollect -----------------------------
(* Five repositories, two at a time, over seven preset files.  r1's presets   *)
(* run too deep by way of a fallback, r2's end in a cycle, r3's are in order, *)
(* r4's end in a text that is no preset and r5's in a file that is not there; *)
(* the first three reach the leaf b.                                          *)
EXTENDS Collect

CONSTANTS r1, r2, r3, r4, r5, a, aOld, b, c, d, e, f

MCNames == <<r1, r2, r3, r4, r5>>
MCExtends == (r1 :> <<b, a>>) @@ (r2 :> <<b, d>>) @@ (r3 :> <<c>>) @@ (r4 :> <<e>>) @@ (r5 :> <<f>>)
               @@ (a :> <<>>) @@ (aOld :> <<c>>) @@ (b :> <<>>) @@ (c :> <<b>>) @@ (d :> <<d>>)
               @@ (e :> <<>>) @@ (f :> <<>>)
MCFallback == (a :> aOld) @@ (aOld :> None) @@ (b :> None) @@ (c :> None) @@ (d :> None) @@ (e :> None)
                @@ (f :> None)
=============================================================================
