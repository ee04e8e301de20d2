------------------------------- MODULE MCNode -------------------------------
(* Two hosts, one that is elsewhere.  Data tell the requests apart.        *)
EXTENDS Node, TLC

MCMac == (1 :> "m1") @@ (2 :> "m2")

MCArpMessages ==
  {[src |-> 1, mac |-> "m1", for_us |-> TRUE],
   [src |-> 1, mac |-> "m1", for_us |-> FALSE],
   [src |-> 2, mac |-> "m2", for_us |-> TRUE],
   [src |-> NoIP, mac |-> "m2", for_us |-> TRUE]}

Packet(src, dst, proto, bytes) ==
  [src |-> src, dst |-> dst, proto |-> proto, bytes |-> bytes, ok |-> TRUE]

Elsewhere == 12
Everyone  == 11

MCArriving ==
  {Packet(1, Us, "ICMP", Checked(ICMP_ECHO, <<2, 3>>)),
   Packet(2, Us, "ICMP", Checked(ICMP_ECHO, <<1, 0>>)),
   Packet(2, Us, "ICMP", Checked(ICMP_ECHO, <<2, 2, 1, 3>>)),
   Packet(2, Us, "ICMP", <<ICMP_ECHO, 0>>),
   Packet(1, Us, "ICMP", <<ICMP_ECHO, 0, 0, 0, 3, 2>>),
   Packet(1, Everyone, "ICMP", Checked(ICMP_ECHO, <<0, 1>>)),
   Packet(1, NoIP, "ICMP", Checked(ICMP_ECHO, <<0, 1>>)),
   Packet(1, Elsewhere, "ICMP", Checked(ICMP_ECHO, <<0, 2>>)),
   Packet(Elsewhere, Us, "ICMP", Checked(ICMP_ECHO, <<0, 3>>)),
   Packet(Everyone, Us, "ICMP", Checked(ICMP_ECHO, <<1, 1>>)),
   Packet(1, Us, "ICMP", Checked(ICMP_ER, <<1, 2>>)),
   Packet(2, Us, "ICMP", Checked(ICMP_ECHO, <<1>>)),
   Packet(2, Us, "other", <<1, 3, 0>>),
   Packet(1, Everyone, "other", <<2, 0>>),
   [Packet(1, Us, "ICMP", Checked(ICMP_ECHO, <<2, 1>>)) EXCEPT !.ok = FALSE]}

MCDatagrams == {<<1, 1>>, <<2, 1>>}
MCMessageOf ==
  (<<1, 1>> :> Packet(1, Us, "ICMP", Checked(ICMP_ECHO, <<3, 0>>))) @@
  (<<2, 1>> :> Packet(2, Us, "ICMP", Checked(ICMP_ECHO, <<3, 3>>)))
=============================================================================
