------------------------------ MODULE MCReass -------------------------------
(* Two sources that use the same identification, one that uses two.        *)
EXTENDS Reass

MCDatagrams   == {<<1, 1>>, <<2, 1>>, <<1, 2>>, <<2, 2>>}
MCWithOptions == {<<2, 2>>}
=============================================================================
