------------------------------ MODULE MCTxPath ------------------------------
(***************************************************************************)
(* TxPath with a receive ring of 4 bytes and 8 bytes for the transmitter:  *)
(* the longest frame, its control byte and the status vector fill them to  *)
(* the last byte.  Chains of one, two and three pbufs, one of them empty.  *)
(***************************************************************************)
EXTENDS TxPath

Pbuf(len, tot_len) == [len |-> len, tot_len |-> tot_len]

const_Chains == {<<Pbuf(1, 1)>>,
                 <<Pbuf(3, 3)>>,
                 <<Pbuf(2, 5), Pbuf(3, 3)>>,
                 <<Pbuf(2, 4), Pbuf(0, 2), Pbuf(2, 2)>>}
=============================================================================
