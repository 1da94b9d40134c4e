--------------------------- MODULE MCWhatsAppQueue ---------------------------
(* The WhatsApp nudge by itself, on two pushes of one article.              *)
EXTENDS WhatsAppQueue

TwoPushes == <<"a", "a">>
=============================================================================
