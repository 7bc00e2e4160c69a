-------------------------- MODULE MCQuoteSubprocess --------------------------
(* QuoteSubprocess on small instances. *)
EXTENDS QuoteSubprocess

=============================================================================
