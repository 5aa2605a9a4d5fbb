----------------------------- MODULE MCPublisher -----------------------------
(***************************************************************************)
(* Model checking of RabbitPublisher.                                       *)
(***************************************************************************)
EXTENDS PublisherProperties

=============================================================================
