---------------------------- MODULE MCBusClient ----------------------------
(***************************************************************************)
(* BusClient with calls to registers of every type and every bank.  The    *)
(* second, small set is for a client that makes PHY writes in any bank.    *)
(***************************************************************************)
EXTENDS BusClient

const_Calls ==
  {Write(ERDPTL, 4660), Read(ERDPTL), Read(EPKTCNT), Read(ERXFCON),
   Write(MAMXFLL, 1518), Read(MAMXFLL), Write(MAADR1, 2), Read(MAADR1),
   Read(ESTAT), Read(PHLCON), Write(PHLCON, 14467), BfSet(ECON1, RXEN),
   BfSet(ECON1, TXRTS), Read(ECON1), BfClear(ERXFCON, 32),
   Write(ECON1, RXEN + TXRTS + Bank2), Reset}

const_CallsWithPhyWrite ==
  {Write(ERDPTL, 4660), Read(MAMXFLL), Read(PHLCON), Write(PHLCON, 14467)}
=============================================================================
