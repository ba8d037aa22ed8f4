--------------------------- MODULE MCBotDelivery ---------------------------
(* Two polls that overlap, a scan, and a round of the queue.               *)
EXTENDS BotDelivery
CONSTANTS p1, p2, s1, d1
=============================================================================
